---- MODULE Spec2Model ----
(***************************************************************************)
(* Message-moderation pipeline of chat_moderation_system.py:               *)
(* RegexDetector, MLDetector, ModerationDatabase and ModerationEngine.     *)
(*                                                                         *)
(* Text is a sequence of one-character strings.  Confidences are integers  *)
(* in thousandths (0.9 is 900).  A risk score is the pair <<flagged,       *)
(* total>> that user_stats.risk_score is the quotient of.                  *)
(***************************************************************************)
EXTENDS Integers, Sequences, FiniteSets, TLC

\* ---------------------------------------------------------------------
\* Characters and the regular expressions of the re module
\* ---------------------------------------------------------------------

LowerLetters == <<"a","b","c","d","e","f","g","h","i","j","k","l","m",
                  "n","o","p","q","r","s","t","u","v","w","x","y","z">>

UpperLetters == <<"A","B","C","D","E","F","G","H","I","J","K","L","M",
                  "N","O","P","Q","R","S","T","U","V","W","X","Y","Z">>

Letters == {LowerLetters[k] : k \in 1..Len(LowerLetters)}

Digits == {"0","1","2","3","4","5","6","7","8","9"}

\* \w of re: letters, digits and the underscore (the text is lower case
\* wherever a pattern is applied).
WordChars == Letters \cup Digits \cup {"_"}

\* \s of re.
Space == {" ", "\t", "\n"}

\* str.lower() on one character.
LowerChar(c) ==
    IF \E k \in 1..Len(UpperLetters) : UpperLetters[k] = c
    THEN LowerLetters[CHOOSE k \in 1..Len(UpperLetters) : UpperLetters[k] = c]
    ELSE c

\* str.lower()
Lower(s) == [k \in 1..Len(s) |-> LowerChar(s[k])]

\* str.replace(old, new): leftmost, non-overlapping occurrences.
RECURSIVE Replace(_, _, _)
Replace(s, old, new) ==
    IF Len(s) < Len(old) THEN s
    ELSE IF SubSeq(s, 1, Len(old)) = old
         THEN new \o Replace(SubSeq(s, Len(old) + 1, Len(s)), old, new)
         ELSE <<s[1]>> \o Replace(Tail(s), old, new)

\* re.sub(r'\s+', ' ', s): every run of white space becomes one blank.
RECURSIVE CollapseSpaces(_)
CollapseSpaces(s) ==
    IF s = <<>> THEN <<>>
    ELSE IF s[1] \in Space
         THEN IF Len(s) > 1 /\ s[2] \in Space
              THEN CollapseSpaces(Tail(s))
              ELSE <<" ">> \o CollapseSpaces(Tail(s))
         ELSE <<s[1]>> \o CollapseSpaces(Tail(s))

\* Regular expressions as trees.
Lit(w) == [t |-> "lit", w |-> w]
Cls(S) == [t |-> "cls", s |-> S]
Cat(rs) == [t |-> "seq", rs |-> rs]
Alt(rs) == [t |-> "alt", rs |-> rs]
\* r{lo,hi}; hi = -1 stands for no upper limit.
Rep(r, lo, hi) == [t |-> "rep", r |-> r, lo |-> lo, hi |-> hi]
Plus(r) == Rep(r, 1, -1)
Star(r) == Rep(r, 0, -1)
Opt(r) == Rep(r, 0, 1)
WB == [t |-> "wb"]

IsWordAt(s, i) == i >= 1 /\ i <= Len(s) /\ s[i] \in WordChars

\* Ends(r, s, i): the positions j such that r matches s[i..j-1].
RECURSIVE Ends(_, _, _), EndsSeq(_, _, _, _), EndsRep(_, _, _, _, _)
Ends(r, s, i) ==
    CASE r.t = "lit" ->
           IF i + Len(r.w) - 1 <= Len(s)
              /\ \A k \in 1..Len(r.w) : s[i + k - 1] = r.w[k]
           THEN {i + Len(r.w)} ELSE {}
      [] r.t = "cls" ->
           IF i <= Len(s) /\ s[i] \in r.s THEN {i + 1} ELSE {}
      [] r.t = "wb" ->
           IF IsWordAt(s, i - 1) # IsWordAt(s, i) THEN {i} ELSE {}
      [] r.t = "seq" -> EndsSeq(r.rs, 1, s, {i})
      [] r.t = "alt" -> UNION {Ends(r.rs[k], s, i) : k \in 1..Len(r.rs)}
      [] r.t = "rep" -> EndsRep(r.r, r.lo, r.hi, s, {i})

EndsSeq(rs, k, s, I) ==
    IF k > Len(rs) THEN I
    ELSE EndsSeq(rs, k + 1, s, UNION {Ends(rs[k], s, i) : i \in I})

EndsRep(r, lo, hi, s, I) ==
    IF I = {} THEN {}
    ELSE (IF lo <= 0 THEN I ELSE {})
         \cup (IF hi = 0 THEN {}
               ELSE EndsRep(r, lo - 1, hi - 1, s,
                            UNION {Ends(r, s, i) : i \in I}))

\* re.search / a non-empty re.findall: the pattern matches somewhere.
Matches(r, s) == \E i \in 1..(Len(s) + 1) : Ends(r, s, i) # {}

\* ---------------------------------------------------------------------
\* Config.REGEX_PATTERNS and the tables of RegexDetector
\* ---------------------------------------------------------------------

\* [A-Za-z0-9._%+-]
EmailLocal ==
    Letters \cup Digits \cup {".", "_", "%", "+", "-"}

\* [A-Za-z0-9.-]
EmailDomain ==
    Letters \cup Digits \cup {".", "-"}

\* [A-Z|a-z]
EmailTld ==
    Letters \cup {"|"}

\* [A-Za-z0-9_-]
SlugChars ==
    Letters \cup Digits \cup {"_", "-"}

\* [-.\s]?
Sep ==
    Opt(Cls({"-", "."} \cup Space))

\* \s*
Sp0 ==
    Star(Cls(Space))

\* \s+
Sp1 ==
    Plus(Cls(Space))

\* (?:zero|one|...|nine)
NumWord ==
    Alt(<<Lit(<<"z","e","r","o">>), Lit(<<"o","n","e">>), Lit(<<"t","w","o">>), Lit(<<"t","h","r","e","e">>), Lit(<<"f","o","u","r">>), Lit(<<"f","i","v","e">>), Lit(<<"s","i","x">>), Lit(<<"s","e","v","e","n">>), Lit(<<"e","i","g","h","t">>), Lit(<<"n","i","n","e">>)>>)

\* [0-9]{lo,hi}
Dig(lo, hi) ==
    Rep(Cls(Digits), lo, hi)

\* REGEX_PATTERNS['email'][0]
PatEmail1 ==
    Cat(<<WB, Plus(Cls(EmailLocal)), Lit(<<"@">>), Plus(Cls(EmailDomain)), Lit(<<".">>), Rep(Cls(EmailTld), 2, -1), WB>>)

\* REGEX_PATTERNS['email'][1]
PatEmail2 ==
    Cat(<<WB, Plus(Cls(EmailLocal)), Sp0, Lit(<<"@">>), Sp0, Plus(Cls(EmailDomain)), Sp0, Lit(<<".">>), Sp0, Rep(Cls(EmailTld), 2, -1), WB>>)

\* REGEX_PATTERNS['email'][2]
PatEmail3 ==
    Cat(<<WB, Plus(Cls(EmailLocal)), Sp0, Lit(<<"[">>), Sp0, Lit(<<"a","t">>), Sp0, Lit(<<"]">>), Sp0, Plus(Cls(EmailDomain)), Sp0, Lit(<<"[">>), Sp0, Lit(<<"d","o","t">>), Sp0, Lit(<<"]">>), Sp0, Rep(Cls(EmailTld), 2, -1), WB>>)

\* REGEX_PATTERNS['phone'][0]
PatPhone1 ==
    Cat(<<WB, Opt(Cat(<<Opt(Lit(<<"+">>)), Lit(<<"1">>), Sep>>)), Opt(Lit(<<"(">>)), Dig(3, 3), Opt(Lit(<<")">>)), Sep, Dig(3, 3), Sep, Dig(4, 4), WB>>)

\* REGEX_PATTERNS['phone'][1]
PatPhone2 ==
    Cat(<<WB, Opt(Cat(<<Opt(Lit(<<"+">>)), Cls(Digits \ {"0"}), Dig(0, 3), Sep>>)), Opt(Lit(<<"(">>)), Dig(2, 4), Opt(Lit(<<")">>)), Sep, Dig(3, 4), Sep, Dig(3, 4), WB>>)

\* REGEX_PATTERNS['phone'][2]
PatPhone3 ==
    Cat(<<WB, NumWord, Star(Cls(Space \cup {"-"})), NumWord, Star(Cls(Space \cup {"-"})), NumWord, WB>>)

\* REGEX_PATTERNS['payment_links'][0]
PatPay1 ==
    Cat(<<WB, Alt(<<Lit(<<"p","a","y","p","a","l",".","m","e">>), Lit(<<"v","e","n","m","o",".","c","o","m">>), Lit(<<"c","a","s","h","a","p","p",".","c","o","m">>), Lit(<<"z","e","l","l","e">>), Lit(<<"c","a","s","h",".","a","p","p">>)>>), Lit(<<"/">>), Plus(Cls(SlugChars)), WB>>)

\* REGEX_PATTERNS['payment_links'][1]
PatPay2 ==
    Cat(<<WB, Alt(<<Lit(<<"b","i","t",".","l","y">>), Lit(<<"t","i","n","y","u","r","l",".","c","o","m">>), Lit(<<"t",".","c","o">>)>>), Lit(<<"/">>), Plus(Cls(SlugChars)), WB>>)

\* REGEX_PATTERNS['external_platforms'][0]
PatExt1 ==
    Cat(<<WB, Alt(<<Lit(<<"w","h","a","t","s","a","p","p">>), Lit(<<"t","e","l","e","g","r","a","m">>), Lit(<<"d","i","s","c","o","r","d">>), Lit(<<"s","k","y","p","e">>), Lit(<<"s","n","a","p","c","h","a","t">>), Lit(<<"i","n","s","t","a","g","r","a","m">>), Lit(<<"f","a","c","e","b","o","o","k">>), Lit(<<"t","w","i","t","t","e","r">>), Lit(<<"t","i","k","t","o","k">>)>>), WB>>)

\* REGEX_PATTERNS['external_platforms'][1]
PatExt2 ==
    Cat(<<WB, Alt(<<Lit(<<"p","a","y","p","a","l">>), Lit(<<"v","e","n","m","o">>), Lit(<<"c","a","s","h","a","p","p">>), Lit(<<"z","e","l","l","e">>), Lit(<<"w","e","s","t","e","r","n"," ","u","n","i","o","n">>), Lit(<<"m","o","n","e","y","g","r","a","m">>)>>), WB>>)

\* REGEX_PATTERNS['external_platforms'][2]
PatExt3 ==
    Cat(<<WB, Alt(<<Lit(<<"g","m","a","i","l">>), Lit(<<"y","a","h","o","o">>), Lit(<<"h","o","t","m","a","i","l">>), Lit(<<"o","u","t","l","o","o","k">>), Lit(<<"p","r","o","t","o","n","m","a","i","l">>)>>), WB>>)

\* REGEX_PATTERNS['off_platform_keywords'][0]
PatOff1 ==
    Cat(<<WB, Alt(<<Lit(<<"c","o","n","t","a","c","t"," ","m","e">>), Lit(<<"r","e","a","c","h"," ","m","e">>), Lit(<<"m","e","s","s","a","g","e"," ","m","e">>), Lit(<<"c","a","l","l"," ","m","e">>), Lit(<<"t","e","x","t"," ","m","e">>)>>), Sp1, Alt(<<Lit(<<"a","t">>), Lit(<<"o","n">>), Lit(<<"v","i","a">>)>>), WB>>)

\* REGEX_PATTERNS['off_platform_keywords'][1]
PatOff2 ==
    Cat(<<WB, Alt(<<Lit(<<"s","e","n","d">>), Lit(<<"t","r","a","n","s","f","e","r">>), Lit(<<"p","a","y">>)>>), Sp1, Alt(<<Lit(<<"m","o","n","e","y">>), Lit(<<"p","a","y","m","e","n","t">>), Lit(<<"c","a","s","h">>)>>), Sp1, Alt(<<Lit(<<"t","o">>), Lit(<<"v","i","a">>), Lit(<<"t","h","r","o","u","g","h">>)>>), WB>>)

\* REGEX_PATTERNS['off_platform_keywords'][2]
PatOff3 ==
    Cat(<<WB, Alt(<<Lit(<<"m","e","e","t">>), Lit(<<"t","r","a","n","s","a","c","t","i","o","n">>), Lit(<<"d","e","a","l">>)>>), Sp1, Alt(<<Lit(<<"o","u","t","s","i","d","e">>), Lit(<<"o","f","f">>)>>), Sp1, Alt(<<Lit(<<"p","l","a","t","f","o","r","m">>), Lit(<<"s","i","t","e">>), Lit(<<"a","p","p">>)>>), WB>>)

\* Config.REGEX_PATTERNS, in the order of the dict.
REGEX_PATTERNS ==
    << [category |-> "email", patterns |-> <<PatEmail1, PatEmail2, PatEmail3>>],
       [category |-> "phone", patterns |-> <<PatPhone1, PatPhone2, PatPhone3>>],
       [category |-> "payment_links", patterns |-> <<PatPay1, PatPay2>>],
       [category |-> "external_platforms",
        patterns |-> <<PatExt1, PatExt2, PatExt3>>],
       [category |-> "off_platform_keywords",
        patterns |-> <<PatOff1, PatOff2, PatOff3>>] >>

\* bypass_patterns of detect_smart_bypasses, in list order.
bypass_patterns ==
    << [pattern |->
          Cat(<<Alt(<<Lit(<<"c","o","n","t","a","c","t">>), Lit(<<"r","e","a","c","h">>), Lit(<<"m","e","s","s","a","g","e">>), Lit(<<"c","a","l","l">>), Lit(<<"t","e","x","t">>)>>), Sp1, Lit(<<"m","e">>), Sp1, Alt(<<Lit(<<"a","t">>), Lit(<<"o","n">>), Lit(<<"v","i","a">>)>>)>>),
        bypass_type |-> "contact_bypass"],
       [pattern |->
          Cat(<<Alt(<<Lit(<<"m","y">>), Lit(<<"t","h","e">>)>>), Sp1, Alt(<<Lit(<<"n","u","m","b","e","r">>), Lit(<<"e","m","a","i","l">>), Lit(<<"p","h","o","n","e">>)>>), Sp1, Lit(<<"i","s">>)>>),
        bypass_type |-> "info_sharing"],
       [pattern |->
          Cat(<<Alt(<<Lit(<<"s","e","n","d">>), Lit(<<"t","r","a","n","s","f","e","r">>), Lit(<<"p","a","y">>)>>), Sp1, Alt(<<Lit(<<"t","o">>), Lit(<<"v","i","a">>), Lit(<<"t","h","r","o","u","g","h">>)>>), Sp1, Alt(<<Lit(<<"m","y">>), Lit(<<"t","h","i","s">>)>>)>>),
        bypass_type |-> "payment_bypass"],
       [pattern |->
          Cat(<<Alt(<<Lit(<<"m","e","e","t">>), Lit(<<"d","e","a","l">>), Lit(<<"t","r","a","n","s","a","c","t","i","o","n">>)>>), Sp1, Alt(<<Lit(<<"o","u","t","s","i","d","e">>), Lit(<<"o","f","f">>)>>), Sp1, Alt(<<Lit(<<"p","l","a","t","f","o","r","m">>), Lit(<<"s","i","t","e">>), Lit(<<"a","p","p">>)>>)>>),
        bypass_type |-> "off_platform"],
       [pattern |->
          Cat(<<NumWord, Star(Cls(Space \cup {"-"})), NumWord>>),
        bypass_type |-> "number_words"],
       [pattern |->
          Cat(<<Plus(Cls(EmailLocal)), Sp0, Lit(<<"[">>), Sp0, Lit(<<"a","t">>), Sp0, Lit(<<"]">>), Sp0, Plus(Cls(EmailDomain))>>),
        bypass_type |-> "obfuscated_email"],
       [pattern |->
          Cat(<<Alt(<<Lit(<<"g","m","a","i","l">>), Lit(<<"y","a","h","o","o">>), Lit(<<"h","o","t","m","a","i","l">>), Lit(<<"o","u","t","l","o","o","k">>)>>), Sp0, Lit(<<"[">>), Sp0, Lit(<<"d","o","t">>), Sp0, Lit(<<"]">>), Sp0, Lit(<<"c","o","m">>)>>),
        bypass_type |-> "obfuscated_domain"],
       [pattern |->
          Cat(<<Alt(<<Lit(<<"a","d","d">>), Lit(<<"c","o","n","t","a","c","t">>), Lit(<<"f","i","n","d">>)>>), Sp1, Lit(<<"m","e">>), Sp1, Lit(<<"o","n">>), Sp1, Alt(<<Lit(<<"w","h","a","t","s","a","p","p">>), Lit(<<"t","e","l","e","g","r","a","m">>), Lit(<<"d","i","s","c","o","r","d">>), Lit(<<"i","n","s","t","a","g","r","a","m">>)>>)>>),
        bypass_type |-> "platform_redirect"],
       [pattern |->
          Cat(<<Alt(<<Lit(<<"p","a","y","p","a","l">>), Lit(<<"v","e","n","m","o">>), Lit(<<"c","a","s","h","a","p","p">>), Lit(<<"z","e","l","l","e">>)>>), Sp1, Alt(<<Lit(<<"m","e">>), Lit(<<"l","i","n","k">>), Lit(<<"a","c","c","o","u","n","t">>)>>)>>),
        bypass_type |-> "payment_platform"] >>

\* replacements of _normalize_message, flattened in iteration order:
\* each entry is <<alternative, original>>.
replacements ==
    << <<<<"a","t">>, <<"@">>>>,
       <<<<"(","a","t",")">>, <<"@">>>>,
       <<<<"[","a","t","]">>, <<"@">>>>,
       <<<<" ","a","t"," ">>, <<"@">>>>,
       <<<<"_","a","t","_">>, <<"@">>>>,
       <<<<"d","o","t">>, <<".">>>>,
       <<<<"(","d","o","t",")">>, <<".">>>>,
       <<<<"[","d","o","t","]">>, <<".">>>>,
       <<<<" ","d","o","t"," ">>, <<".">>>>,
       <<<<"_","d","o","t","_">>, <<".">>>>,
       <<<<"z","e","r","o">>, <<"0">>>>,
       <<<<"o">>, <<"0">>>>,
       <<<<"O">>, <<"0">>>>,
       <<<<"o","n","e">>, <<"1">>>>,
       <<<<"l">>, <<"1">>>>,
       <<<<"I">>, <<"1">>>>,
       <<<<"t","w","o">>, <<"2">>>>,
       <<<<"t","o">>, <<"2">>>>,
       <<<<"t","h","r","e","e">>, <<"3">>>>,
       <<<<"t","r","e","e">>, <<"3">>>>,
       <<<<"f","o","u","r">>, <<"4">>>>,
       <<<<"f","o","r">>, <<"4">>>>,
       <<<<"f","i","v","e">>, <<"5">>>>,
       <<<<"s","i","x">>, <<"6">>>>,
       <<<<"s","e","v","e","n">>, <<"7">>>>,
       <<<<"e","i","g","h","t">>, <<"8">>>>,
       <<<<"n","i","n","e">>, <<"9">>>> >>

\* "Contact me at john.doe@gmail.com"
MsgContactEmail ==
    <<"C","o","n","t","a","c","t"," ","m","e"," ","a","t"," ","j","o","h","n",".","d","o","e","@","g","m","a","i","l",".","c","o","m">>

\* "Let's deal outside this platform"
MsgDealOutside ==
    <<"L","e","t","'","s"," ","d","e","a","l"," ","o","u","t","s","i","d","e"," ","t","h","i","s"," ","p","l","a","t","f","o","r","m">>

\* "mail x@y.net"
MsgPlainEmail ==
    <<"m","a","i","l"," ","x","@","y",".","n","e","t">>

\* "Call me at 555-123-4567"
MsgCallPhone ==
    <<"C","a","l","l"," ","m","e"," ","a","t"," ","5","5","5","-","1","2","3","-","4","5","6","7">>

\* The messages the engine is called with.
Corpus ==
    <<MsgContactEmail, MsgDealOutside, MsgPlainEmail, MsgCallPhone>>

\* ---------------------------------------------------------------------
\* Config
\* ---------------------------------------------------------------------

REGEX_CONFIDENCE == 900

COMBINED_CONFIDENCE_THRESHOLD == 600

\* confidence of a bypass match in detect_smart_bypasses (0.8)
BYPASS_CONFIDENCE == 800

\* confidence reported by predict_violation without a fitted model (0.1)
ML_DEFAULT_CONFIDENCE == 100

\* Python's None
None == "None"

\* ---------------------------------------------------------------------
\* RegexDetector
\* ---------------------------------------------------------------------

RECURSIVE ApplyReplacements(_, _)
ApplyReplacements(s, k) ==
    IF k > Len(replacements) THEN s
    ELSE ApplyReplacements(Replace(s, replacements[k][1], replacements[k][2]),
                           k + 1)

\* RegexDetector._normalize_message
normalize_message(message) ==
    CollapseSpaces(ApplyReplacements(Lower(message), 1))

\* one pass of the inner loop: some pattern of the category has a match
CategoryMatches(k, text) ==
    \E j \in 1..Len(REGEX_PATTERNS[k].patterns) :
        Matches(REGEX_PATTERNS[k].patterns[j], text)

\* a loop that keeps the last category that matched
FirstOf_last(S) == CHOOSE k \in S : \A j \in S : k >= j

\* the category the loop of detect_violations stops at (break)
FirstOf(S) == CHOOSE k \in S : \A j \in S : k <= j

\* RegexDetector.detect_violations
detect_violations(message) ==
    LET normalized == normalize_message(message)
        firing == {k \in 1..Len(REGEX_PATTERNS) : CategoryMatches(k, normalized)}
    IN  IF firing = {}
        THEN [is_violation |-> FALSE, violation_type |-> None, confidence |-> 0]
        ELSE [is_violation |-> TRUE,
              violation_type |-> REGEX_PATTERNS[FirstOf(firing)].category,
              confidence |-> REGEX_CONFIDENCE]

\* RegexDetector.detect_smart_bypasses
detect_smart_bypasses(message) ==
    LET message_lower == Lower(message)
        firing == {k \in 1..Len(bypass_patterns) :
                      Matches(bypass_patterns[k].pattern, message_lower)}
    IN  IF firing = {}
        THEN [is_bypass |-> FALSE, bypass_type |-> None, confidence |-> 0]
        ELSE [is_bypass |-> TRUE,
              bypass_type |-> bypass_patterns[FirstOf(firing)].bypass_type,
              confidence |-> BYPASS_CONFIDENCE]

\* the confidences of two sources added up
Max_sum(a, b) == a + b

Max(a, b) == IF a >= b THEN a ELSE b

Min(a, b) == IF a <= b THEN a ELSE b

\* RegexDetector.analyze_message_risk
analyze_message_risk(message) ==
    LET violation_results == detect_violations(message)
        bypass_results == detect_smart_bypasses(message)
    IN  [has_violation |-> violation_results.is_violation,
         has_bypass |-> bypass_results.is_bypass,
         confidence |->
            IF violation_results.is_violation /\ bypass_results.is_bypass
            THEN Max(violation_results.confidence, bypass_results.confidence)
            ELSE IF violation_results.is_violation
                 THEN violation_results.confidence
                 ELSE IF bypass_results.is_bypass
                      THEN bypass_results.confidence
                      ELSE 0,
         violation_details |-> violation_results,
         bypass_details |-> bypass_results]

\* analyze_message_risk of every message of the corpus
RegexResults == [m \in 1..Len(Corpus) |-> analyze_message_risk(Corpus[m])]

\* ---------------------------------------------------------------------
\* Bounds and input sets
\* ---------------------------------------------------------------------

\* moderate_message calls in one run of Spec
MaxCalls == 3

\* direct log_flagged_message / log_safe_message calls in one run of SpecLedger
MaxOps == 5

\* concurrent callers of the ledger in SpecConc
NProcs == 3

Procs == 1..NProcs

\* the identities messages are sent by
Users == {"user5", "user19"}

\* (prediction, predict_proba(...).max()) pairs a fitted classifier returns
MLOutputs ==
    { [prediction |-> 0, confidence |-> 800],
      [prediction |-> 1, confidence |-> 700] }

\* where a call can raise: "regex" analyze_message_risk (message is not a
\* str), "features" extract_features, "predict" the fitted pipeline (caught
\* inside predict_violation), "db_read" get_user_stats, "db_write" the
\* sqlite3 write of log_flagged_message / log_safe_message.
Faults == {"none", "regex", "features", "predict", "db_read", "db_write"}

VARIABLES
    classifier,         \* "unavailable" (no scikit-learn), "untrained", "trained"
    user_stats,         \* table user_stats: user_id -> row
    flagged_messages,   \* table flagged_messages, in id order
    stats,              \* ModerationEngine.stats
    result,             \* what the last moderate_message call returned
    ncalls,             \* moderate_message calls that have returned
    assessment,         \* SpecDecide: the argument of _make_final_decision
    decision,           \* SpecDecide: what _make_final_decision returned
    recorded,           \* SpecLedger: the calls made so far, per identity
    calls,              \* SpecConc: the call each caller is making
    txn,                \* SpecConc: the uncommitted tables of each caller
    combine_args,       \* SpecCombine: the arguments of _combine_detection_results
    training,           \* SpecTrain: the train_models run
    scored_with,        \* SpecTrain: the model the last moderate call read
    batch,              \* SpecBatch: the argument of batch_moderate
    results,            \* SpecBatch: the list batch_moderate is building
    progress,           \* SpecStages: where the moderate_message call is
    detection           \* SpecDetect: the analyze_message_risk call

\* ---------------------------------------------------------------------
\* ModerationDatabase
\* ---------------------------------------------------------------------

\* a row of user_stats as INSERT OR IGNORE creates it (column defaults);
\* risk_score <<f, t>> is the real f / t
DefaultRow == [total_messages |-> 0, flagged_messages |-> 0, risk_score |-> <<0, 1>>]

\* _update_user_stats with the risk score taken from the counters as they
\* were before the increment
update_user_stats_stale(table, user_id, flagged) ==
    LET inserted == IF user_id \in DOMAIN table THEN table
                    ELSE table @@ (user_id :> DefaultRow)
        row == inserted[user_id]
        counted == [row EXCEPT !.total_messages = @ + 1,
                               !.flagged_messages = IF flagged THEN @ + 1 ELSE @]
        scored == IF row.total_messages > 0
                  THEN [counted EXCEPT !.risk_score =
                            <<row.flagged_messages, row.total_messages>>]
                  ELSE counted
    IN  [inserted EXCEPT ![user_id] = scored]

\* ModerationDatabase._update_user_stats
update_user_stats(table, user_id, flagged) ==
    LET inserted == IF user_id \in DOMAIN table THEN table
                    ELSE table @@ (user_id :> DefaultRow)
        row == inserted[user_id]
        counted == [row EXCEPT !.total_messages = @ + 1,
                               !.flagged_messages = IF flagged THEN @ + 1 ELSE @]
        scored == IF counted.total_messages > 0
                  THEN [counted EXCEPT !.risk_score =
                            <<counted.flagged_messages, counted.total_messages>>]
                  ELSE counted
    IN  [inserted EXCEPT ![user_id] = scored]

\* get_user_stats whose SELECT has no WHERE user_id = ?: fetchone() gives
\* a row of the table, whoever it belongs to
get_user_stats_nowhere(table, user_id) ==
    IF DOMAIN table # {} THEN table[CHOOSE other \in DOMAIN table : TRUE]
    ELSE DefaultRow

\* ModerationDatabase.get_user_stats
get_user_stats(table, user_id) ==
    IF user_id \in DOMAIN table THEN table[user_id] ELSE DefaultRow

\* log_flagged_message without the INSERT INTO flagged_messages
log_flagged_message_norow(db, user_id, message, violation_type, confidence_score, detection_method) ==
    [flagged_messages |-> db.flagged_messages,
     user_stats |-> update_user_stats(db.user_stats, user_id, TRUE)]

\* ModerationDatabase.log_flagged_message: both tables after the commit
log_flagged_message(db, user_id, message, violation_type, confidence_score, detection_method) ==
    [flagged_messages |->
        Append(db.flagged_messages,
               [user_id |-> user_id, message |-> message,
                violation_type |-> violation_type,
                confidence_score |-> confidence_score,
                detection_method |-> detection_method]),
     user_stats |-> update_user_stats(db.user_stats, user_id, TRUE)]

\* log_safe_message without the call of _update_user_stats
log_safe_message_noop(db, user_id) ==
    [flagged_messages |-> db.flagged_messages, user_stats |-> db.user_stats]

\* ModerationDatabase.log_safe_message
log_safe_message(db, user_id) ==
    [flagged_messages |-> db.flagged_messages,
     user_stats |-> update_user_stats(db.user_stats, user_id, FALSE)]

\* ---------------------------------------------------------------------
\* MLDetector
\* ---------------------------------------------------------------------

\* predict_violation without the hasattr(..., 'classes_') test: a pipeline
\* that was never fitted is asked as a fitted one is
predict_violation_unguarded(model, out, raises) ==
    IF model = "unavailable"
    THEN [is_violation |-> FALSE, confidence |-> ML_DEFAULT_CONFIDENCE,
          violation_type |-> None, model_predictions |-> "not_available"]
    ELSE IF raises
    THEN [is_violation |-> FALSE, confidence |-> ML_DEFAULT_CONFIDENCE,
          violation_type |-> None, model_predictions |-> "empty"]
    ELSE [is_violation |-> out.prediction = 1, confidence |-> out.confidence,
          violation_type |-> None, model_predictions |-> "predicted"]

\* MLDetector.predict_violation; out is what the fitted pipeline answers,
\* raises tells that predict / predict_proba raised: the except clause
\* prints the exception and model_predictions stays {}
predict_violation(model, out, raises) ==
    IF model = "unavailable"
    THEN [is_violation |-> FALSE, confidence |-> ML_DEFAULT_CONFIDENCE,
          violation_type |-> None, model_predictions |-> "not_available"]
    ELSE IF model = "untrained"
    THEN [is_violation |-> FALSE, confidence |-> ML_DEFAULT_CONFIDENCE,
          violation_type |-> None, model_predictions |-> "untrained"]
    ELSE IF raises
    THEN [is_violation |-> FALSE, confidence |-> ML_DEFAULT_CONFIDENCE,
          violation_type |-> None, model_predictions |-> "empty"]
    ELSE [is_violation |-> out.prediction = 1, confidence |-> out.confidence,
          violation_type |-> None, model_predictions |-> "predicted"]

\* MLDetector.get_model_info()['violation_classifier']['trained']
model_trained(model) == model = "trained"

\* ---------------------------------------------------------------------
\* ModerationEngine
\* ---------------------------------------------------------------------

\* a history adjustment that adds 0.2 to the confidence
Times12_plus(c) == c + 200

\* confidence * 1.2 in binary64: exact on thousandths but for 0.75 * 1.2,
\* which is 0.8999999999999999 (below 0.9)
Times12(c) == IF c = 750 THEN 899 ELSE (c * 12) \div 10

\* confidence * 0.8
Times09_steep(c) == (c * 8) \div 10

\* confidence * 0.9
Times09(c) == (c * 9) \div 10

\* a classifier confidence taken as reported
Times05_full(c) == c

\* ml_confidence *= 0.5
Times05(c) == c \div 2

\* the 1.2 boost given to the identities below 0.5
RiskAbove05_inverted(r) == 2 * r[1] < r[2]

\* user_risk_factor > 0.5
RiskAbove05(r) == 2 * r[1] > r[2]

\* user_risk_factor < 0.1
RiskBelow01(r) == 10 * r[1] < r[2]

\* the chain with > in place of >=
risk_level_of_strict(confidence) ==
    IF confidence > 900 THEN "critical"
    ELSE IF confidence > 700 THEN "high"
    ELSE IF confidence > 500 THEN "medium"
    ELSE "low"

\* the if / elif chain on combined['confidence']
risk_level_of(confidence) ==
    IF confidence >= 900 THEN "critical"
    ELSE IF confidence >= 700 THEN "high"
    ELSE IF confidence >= 500 THEN "medium"
    ELSE "low"

\* _combine_detection_results keeping in the evidence only the source
\* that supplied the maximum
combine_detection_results_winner(regex_results, ml_results, user_risk, trained) ==
    LET c1 == IF regex_results.has_violation
              THEN Max(0, regex_results.confidence) ELSE 0
        e1 == IF regex_results.has_violation
              THEN <<[source |-> "regex",
                      type |-> regex_results.violation_details.violation_type,
                      confidence |-> regex_results.confidence]>>
              ELSE <<>>
        c2 == IF regex_results.has_bypass
              THEN Max(c1, regex_results.bypass_details.confidence) ELSE c1
        e2 == IF regex_results.has_bypass
              THEN IF regex_results.bypass_details.confidence > c1
                   THEN <<[source |-> "regex_bypass",
                           type |-> regex_results.bypass_details.bypass_type,
                           confidence |-> regex_results.bypass_details.confidence]>>
                   ELSE e1
              ELSE e1
        ml_confidence == IF trained THEN ml_results.confidence
                         ELSE Times05(ml_results.confidence)
        c3 == IF ml_results.is_violation THEN Max(c2, ml_confidence) ELSE c2
        e3 == IF ml_results.is_violation
              THEN IF ml_confidence > c2
                   THEN <<[source |-> "ml", type |-> ml_results.violation_type,
                           confidence |-> ml_confidence]>>
                   ELSE e2
              ELSE e2
        adjusted == IF RiskAbove05(user_risk) THEN Min(1000, Times12(c3))
                    ELSE IF RiskBelow01(user_risk) THEN Times09(c3)
                    ELSE c3
    IN  [has_violation |-> regex_results.has_violation
                           \/ regex_results.has_bypass
                           \/ ml_results.is_violation,
         confidence |-> adjusted,
         violation_type |-> IF regex_results.has_violation
                            THEN regex_results.violation_details.violation_type
                            ELSE None,
         risk_level |-> risk_level_of(adjusted),
         evidence |-> e3,
         user_risk_factor |-> user_risk]

\* ModerationEngine._combine_detection_results, user_risk being
\* get_user_stats(user_id)['risk_score']
combine_detection_results(regex_results, ml_results, user_risk, trained) ==
    LET c1 == IF regex_results.has_violation
              THEN Max(0, regex_results.confidence) ELSE 0
        e1 == IF regex_results.has_violation
              THEN <<[source |-> "regex",
                      type |-> regex_results.violation_details.violation_type,
                      confidence |-> regex_results.confidence]>>
              ELSE <<>>
        c2 == IF regex_results.has_bypass
              THEN Max(c1, regex_results.bypass_details.confidence) ELSE c1
        e2 == IF regex_results.has_bypass
              THEN <<[source |-> "regex_bypass",
                      type |-> regex_results.bypass_details.bypass_type,
                      confidence |-> regex_results.bypass_details.confidence]>>
              ELSE <<>>
        ml_confidence == IF trained THEN ml_results.confidence
                         ELSE Times05(ml_results.confidence)
        c3 == IF ml_results.is_violation THEN Max(c2, ml_confidence) ELSE c2
        e3 == IF ml_results.is_violation
              THEN <<[source |-> "ml", type |-> ml_results.violation_type,
                      confidence |-> ml_confidence]>>
              ELSE <<>>
        adjusted == IF RiskAbove05(user_risk) THEN Min(1000, Times12(c3))
                    ELSE IF RiskBelow01(user_risk) THEN Times09(c3)
                    ELSE c3
    IN  [has_violation |-> regex_results.has_violation
                           \/ regex_results.has_bypass
                           \/ ml_results.is_violation,
         confidence |-> adjusted,
         violation_type |-> IF regex_results.has_violation
                            THEN regex_results.violation_details.violation_type
                            ELSE None,
         risk_level |-> risk_level_of(adjusted),
         evidence |-> e1 \o e2 \o e3,
         user_risk_factor |-> user_risk]

\* warning_mapping of _get_warning_message
warning_mapping ==
    [email |-> "personal_info", phone |-> "personal_info",
     payment_links |-> "off_platform_transaction",
     external_platforms |-> "external_platform",
     off_platform_keywords |-> "off_platform_transaction",
     contact_sharing |-> "personal_info",
     payment_request |-> "off_platform_transaction",
     platform_redirect |-> "external_platform"]

\* _get_warning_message falling back on 'off_platform_transaction' for a
\* violation type the mapping does not have
get_warning_message_offplatform(violation_type) ==
    IF violation_type \in DOMAIN warning_mapping
    THEN warning_mapping[violation_type] ELSE "off_platform_transaction"

\* ModerationEngine._get_warning_message: the key into Config.WARNING_MESSAGES
get_warning_message(violation_type) ==
    IF violation_type \in DOMAIN warning_mapping
    THEN warning_mapping[violation_type] ELSE "general"

\* _make_final_decision without the risk-level test
make_final_decision_any_risk(combined_analysis) ==
    LET base == [is_flagged |-> FALSE, action |-> "allow",
                 confidence |-> combined_analysis.confidence,
                 violation_type |-> combined_analysis.violation_type,
                 warning_message |-> None]
    IN  IF combined_analysis.has_violation
        THEN IF combined_analysis.confidence >= COMBINED_CONFIDENCE_THRESHOLD
             THEN [base EXCEPT !.is_flagged = TRUE, !.action = "block",
                       !.warning_message =
                          get_warning_message(combined_analysis.violation_type)]
             ELSE [base EXCEPT !.is_flagged = TRUE, !.action = "warn",
                       !.warning_message = "general"]
        ELSE base

\* _make_final_decision with > in place of >= on the threshold
make_final_decision_strict(combined_analysis) ==
    LET base == [is_flagged |-> FALSE, action |-> "allow",
                 confidence |-> combined_analysis.confidence,
                 violation_type |-> combined_analysis.violation_type,
                 warning_message |-> None]
    IN  IF combined_analysis.has_violation
        THEN IF combined_analysis.confidence > COMBINED_CONFIDENCE_THRESHOLD
             THEN IF combined_analysis.risk_level \in {"critical", "high"}
                  THEN [base EXCEPT !.is_flagged = TRUE, !.action = "block",
                            !.warning_message =
                               get_warning_message(combined_analysis.violation_type)]
                  ELSE [base EXCEPT !.is_flagged = TRUE, !.action = "warn",
                            !.warning_message =
                               get_warning_message(combined_analysis.violation_type)]
             ELSE [base EXCEPT !.is_flagged = TRUE, !.action = "warn",
                       !.warning_message = "general"]
        ELSE base

\* ModerationEngine._make_final_decision
make_final_decision(combined_analysis) ==
    LET base == [is_flagged |-> FALSE, action |-> "allow",
                 confidence |-> combined_analysis.confidence,
                 violation_type |-> combined_analysis.violation_type,
                 warning_message |-> None]
    IN  IF combined_analysis.has_violation
        THEN IF combined_analysis.confidence >= COMBINED_CONFIDENCE_THRESHOLD
             THEN IF combined_analysis.risk_level \in {"critical", "high"}
                  THEN [base EXCEPT !.is_flagged = TRUE, !.action = "block",
                            !.warning_message =
                               get_warning_message(combined_analysis.violation_type)]
                  ELSE [base EXCEPT !.is_flagged = TRUE, !.action = "warn",
                            !.warning_message =
                               get_warning_message(combined_analysis.violation_type)]
             ELSE [base EXCEPT !.is_flagged = TRUE, !.action = "warn",
                       !.warning_message = "general"]
        ELSE base

\* Python's {} in result['details']
EmptyDict == <<>>

\* the result structure moderate_message starts from
initial_result(message, user_id) ==
    [message |-> message, user_id |-> user_id, is_flagged |-> FALSE,
     action |-> "allow", confidence |-> 0, violation_type |-> None,
     warning_message |-> None,
     details |-> [regex_results |-> EmptyDict, ml_results |-> EmptyDict,
                  combined_analysis |-> EmptyDict, error |-> None]]

\* an except branch that fails closed
fail_open_closed(res, error) ==
    [res EXCEPT !.action = "block", !.is_flagged = TRUE, !.details.error = error]

\* the except branch of moderate_message
fail_open(res, error) ==
    [res EXCEPT !.action = "allow", !.details.error = error]

\* _log_flagged_message naming only the source of the first evidence entry
engine_log_flagged_message_first(db, res) ==
    LET evidence == res.details.combined_analysis.evidence
        detection_method == {evidence[1].source}
    IN  log_flagged_message(db, res.user_id, res.message,
                            IF res.violation_type = None THEN "unknown"
                            ELSE res.violation_type,
                            res.confidence, detection_method)

\* ModerationEngine._log_flagged_message; the rows of both tables after it.
\* detection_method is '+'.join(set(detection_methods)): the names of the
\* set in its iteration order, kept here as the set
engine_log_flagged_message(db, res) ==
    LET evidence == res.details.combined_analysis.evidence
        detection_method == {evidence[k].source : k \in 1..Len(evidence)}
    IN  log_flagged_message(db, res.user_id, res.message,
                            IF res.violation_type = None THEN "unknown"
                            ELSE res.violation_type,
                            res.confidence, detection_method)

\* result.update(final_decision)
update_result(res, final_decision) ==
    [res EXCEPT !.is_flagged = final_decision.is_flagged,
                !.action = final_decision.action,
                !.confidence = final_decision.confidence,
                !.violation_type = final_decision.violation_type,
                !.warning_message = final_decision.warning_message]

\* the end of moderate_message: the processing time is recorded
record_time(st) == [st EXCEPT !.processing_times = @ + 1]

\* what a call that raised returns and leaves: nothing written, the
\* statistics not counted
raised(res, error, db, st) ==
    [result |-> fail_open(res, error), db |-> db, stats |-> record_time(st)]

\* moderate_message from step 5 on: log results, update statistics
moderate_step5(db, st, fault, res) ==
    IF fault = "db_write"
    THEN raised(res, "db_write", db, st)
    ELSE [result |-> res,
          db |-> IF res.is_flagged THEN engine_log_flagged_message(db, res)
                 ELSE log_safe_message(db, res.user_id),
          stats |-> [record_time(st) EXCEPT
                        !.total_messages = @ + 1,
                        !.flagged_messages = IF res.is_flagged THEN @ + 1 ELSE @]]

\* moderate_message from step 4 on: determine the final action
moderate_step4(db, st, fault, res) ==
    moderate_step5(db, st, fault,
        update_result(res, make_final_decision(res.details.combined_analysis)))

\* moderate_message from step 3 on: combine the results
moderate_step3(model, db, st, fault, res) ==
    IF fault = "db_read"
    THEN raised(res, "db_read", db, st)
    ELSE moderate_step4(db, st, fault,
            [res EXCEPT !.details.combined_analysis =
                combine_detection_results(res.details.regex_results,
                    res.details.ml_results,
                    get_user_stats(db.user_stats, res.user_id).risk_score,
                    model_trained(model))])

\* moderate_message from step 2 on: ML-based detection
moderate_step2(model, db, st, fault, out, res) ==
    IF fault = "features" /\ model # "unavailable"
    THEN raised(res, "features", db, st)
    ELSE moderate_step3(model, db, st, fault,
            [res EXCEPT !.details.ml_results =
                predict_violation(model, out, fault = "predict")])

\* ModerationEngine.moderate_message on the engine state (model, db, st):
\* the returned result and the state it leaves.  message is an index into
\* Corpus, out and fault are the behaviour of the collaborators in this call.
moderate_message(model, db, st, message, user_id, fault, out) ==
    IF fault = "regex"
    THEN raised(initial_result(message, user_id), "regex", db, st)
    ELSE moderate_step2(model, db, st, fault, out,
            [initial_result(message, user_id) EXCEPT
                !.details.regex_results = RegexResults[message]])

\* the two tables of the database file
Database == [user_stats |-> user_stats, flagged_messages |-> flagged_messages]

vars == <<classifier, user_stats, flagged_messages, stats, result, ncalls,
          assessment, decision, recorded, calls, txn,
          combine_args, training, scored_with, batch, results, progress,
          detection>>

engine_vars == <<classifier, stats, result, ncalls>>

decide_vars == <<assessment, decision>>

conc_vars == <<calls, txn>>

admin_vars ==
    <<combine_args, training, scored_with, batch, results, progress, detection>>

NoResult == [action |-> "none"]

NoDecision == [action |-> "none"]

EmptyDatabase == [user_stats |-> [u \in {} |-> DefaultRow], flagged_messages |-> <<>>]

\* the variables of the combiner, training and batch specifications at rest
AdminIdle ==
    /\ combine_args = [model |-> "none"]
    /\ training = [pc |-> "none"]
    /\ scored_with = "none"
    /\ batch = <<>>
    /\ results = <<>>
    /\ progress = [pc |-> "none"]
    /\ detection = [pc |-> "none"]

\* the variables of the pure-function and ledger specifications at rest
Idle ==
    /\ assessment = NoDecision
    /\ decision = NoDecision
    /\ recorded = [u \in Users |-> [flagged |-> 0, safe |-> 0]]
    /\ calls = [p \in Procs |-> [pc |-> "idle", kind |-> "safe", user_id |-> "user5"]]
    /\ txn = [p \in Procs |-> EmptyDatabase]
    /\ AdminIdle

EngineInit ==
    /\ user_stats = EmptyDatabase.user_stats
    /\ flagged_messages = EmptyDatabase.flagged_messages
    /\ stats = [total_messages |-> 0, flagged_messages |-> 0,
                false_positives |-> 0, processing_times |-> 0]
    /\ result = NoResult
    /\ ncalls = 0

\* ModerationDatabase.__init__ on a new file, ModerationEngine.__init__;
\* the classifier is absent, new, or loaded fitted from models/
Init ==
    /\ classifier \in {"unavailable", "untrained", "trained"}
    /\ EngineInit
    /\ Idle

\* the state a call leaves
Returns(call) ==
    /\ result' = call.result
    /\ user_stats' = call.db.user_stats
    /\ flagged_messages' = call.db.flagged_messages
    /\ stats' = call.stats

\* one call of moderate_message
Moderate ==
    /\ ncalls < MaxCalls
    /\ \E message \in 1..Len(Corpus), user_id \in Users,
          fault \in Faults, out \in MLOutputs :
          Returns(moderate_message(classifier, Database, stats,
                                   message, user_id, fault, out))
    /\ ncalls' = ncalls + 1
    /\ UNCHANGED <<classifier, decide_vars, recorded, conc_vars, admin_vars>>

Next == Moderate

Spec == Init /\ [][Next]_vars

\* ---------------------------------------------------------------------
\* SpecDecide: _make_final_decision as a function of its argument
\* ---------------------------------------------------------------------

\* confidences around the thresholds 0.5, 0.6, 0.7 and 0.9
DecideConfidences == {0, 495, 599, 600, 630, 699, 700, 899, 900, 1000}

\* the categories of REGEX_PATTERNS, two keys of warning_mapping no detector
\* reports, one type outside the mapping, and None
DecideTypes ==
    {REGEX_PATTERNS[k].category : k \in 1..Len(REGEX_PATTERNS)}
    \cup {"platform_redirect", "contact_sharing", "ml_detected", None}

RiskLevels == {"low", "medium", "high", "critical"}

Assessments ==
    [has_violation : BOOLEAN, confidence : DecideConfidences,
     violation_type : DecideTypes, risk_level : RiskLevels]

DecideInit ==
    /\ assessment \in Assessments
    /\ decision = NoDecision
    /\ classifier = "untrained"
    /\ EngineInit
    /\ recorded = [u \in Users |-> [flagged |-> 0, safe |-> 0]]
    /\ calls = [p \in Procs |-> [pc |-> "idle", kind |-> "safe", user_id |-> "user5"]]
    /\ txn = [p \in Procs |-> EmptyDatabase]
    /\ AdminIdle

\* final_decision = self._make_final_decision(combined_analysis)
Decide ==
    /\ decision = NoDecision
    /\ decision' = make_final_decision(assessment)
    /\ UNCHANGED <<assessment, engine_vars, user_stats, flagged_messages,
                   recorded, conc_vars, admin_vars>>

DecideNext == Decide

SpecDecide == DecideInit /\ [][DecideNext]_vars

\* ---------------------------------------------------------------------
\* SpecLedger: log_flagged_message and log_safe_message called one after
\* another
\* ---------------------------------------------------------------------

OpsDone == LET Sum(u) == recorded[u].flagged + recorded[u].safe
           IN  Sum("user5") + Sum("user19")

LedgerInit ==
    /\ classifier = "untrained"
    /\ EngineInit
    /\ Idle

\* db.log_flagged_message(user_id, ...)
RecordFlagged(user_id) ==
    /\ OpsDone < MaxOps
    /\ \E violation_type \in {"email", "unknown"} :
          LET db == log_flagged_message(Database, user_id, 1, violation_type,
                                        REGEX_CONFIDENCE, {"regex"})
          IN  /\ user_stats' = db.user_stats
              /\ flagged_messages' = db.flagged_messages
    /\ recorded' = [recorded EXCEPT ![user_id].flagged = @ + 1]
    /\ UNCHANGED <<engine_vars, decide_vars, admin_vars, conc_vars>>

\* db.log_safe_message(user_id)
RecordSafe(user_id) ==
    /\ OpsDone < MaxOps
    /\ LET db == log_safe_message(Database, user_id)
       IN  /\ user_stats' = db.user_stats
           /\ flagged_messages' = db.flagged_messages
    /\ recorded' = [recorded EXCEPT ![user_id].safe = @ + 1]
    /\ UNCHANGED <<engine_vars, decide_vars, admin_vars, conc_vars>>

LedgerNext ==
    \E user_id \in Users : RecordFlagged(user_id) \/ RecordSafe(user_id)

SpecLedger == LedgerInit /\ [][LedgerNext]_vars

\* ---------------------------------------------------------------------
\* SpecConc: callers of log_flagged_message / log_safe_message, each on its
\* own sqlite3 connection.  A connection takes the write lock of the file
\* with its first INSERT and holds it until commit or rollback; its
\* statements change its own uncommitted copy of the tables.
\* ---------------------------------------------------------------------

Holding(p) == calls[p].pc \in {"writing", "updated"}

\* a first INSERT that does not wait for the write lock
CanWriteUnlocked(p) == TRUE

\* the first INSERT of a connection succeeds: no other connection has an
\* open write transaction
CanWrite(p) == \A q \in Procs \ {p} : ~Holding(q)

ConcInit ==
    /\ classifier = "untrained"
    /\ EngineInit
    /\ Idle

\* a caller enters log_flagged_message or log_safe_message:
\* sqlite3.connect(self.db_path), conn.cursor()
Call(p) ==
    /\ calls[p].pc = "idle"
    /\ \E kind \in {"flagged", "safe"}, user_id \in Users :
          calls' = [calls EXCEPT ![p] =
                       [pc |-> "connected", kind |-> kind, user_id |-> user_id]]
    /\ UNCHANGED <<engine_vars, decide_vars, admin_vars, user_stats, flagged_messages,
                   recorded, txn>>

\* the first statement: INSERT INTO flagged_messages (flagged) or the
\* INSERT OR IGNORE of _update_user_stats (safe) opens the transaction
Execute(p) ==
    /\ calls[p].pc = "connected"
    /\ CanWrite(p)
    /\ txn' = [txn EXCEPT ![p] =
                  IF calls[p].kind = "flagged"
                  THEN [Database EXCEPT !.flagged_messages =
                           Append(@, [user_id |-> calls[p].user_id, message |-> 1,
                                      violation_type |-> "email",
                                      confidence_score |-> REGEX_CONFIDENCE,
                                      detection_method |-> {"regex"}])]
                  ELSE Database]
    /\ calls' = [calls EXCEPT ![p].pc = "writing"]
    /\ UNCHANGED <<engine_vars, decide_vars, admin_vars, user_stats, flagged_messages,
                   recorded>>

\* the first statement finds the file locked until the timeout:
\* sqlite3.OperationalError reaches the caller
Busy(p) ==
    /\ calls[p].pc = "connected"
    /\ \E q \in Procs \ {p} : Holding(q)
    /\ calls' = [calls EXCEPT ![p].pc = "failed"]
    /\ UNCHANGED <<engine_vars, decide_vars, admin_vars, user_stats, flagged_messages,
                   recorded, txn>>

\* self._update_user_stats(cursor, user_id, flagged=...)
UpdateStats(p) ==
    /\ calls[p].pc = "writing"
    /\ txn' = [txn EXCEPT ![p].user_stats =
                  update_user_stats(@, calls[p].user_id,
                                    calls[p].kind = "flagged")]
    /\ calls' = [calls EXCEPT ![p].pc = "updated"]
    /\ UNCHANGED <<engine_vars, decide_vars, admin_vars, user_stats, flagged_messages,
                   recorded>>

\* conn.commit(); the call returns
Commit(p) ==
    /\ calls[p].pc = "updated"
    /\ user_stats' = txn[p].user_stats
    /\ flagged_messages' = txn[p].flagged_messages
    /\ calls' = [calls EXCEPT ![p].pc = "done"]
    /\ txn' = [txn EXCEPT ![p] = EmptyDatabase]
    /\ UNCHANGED <<engine_vars, decide_vars, admin_vars, recorded>>

\* a statement or the commit raises: the with block rolls the
\* transaction back and the error reaches the caller
Rollback(p) ==
    /\ Holding(p)
    /\ calls' = [calls EXCEPT ![p].pc = "failed"]
    /\ txn' = [txn EXCEPT ![p] = EmptyDatabase]
    /\ UNCHANGED <<engine_vars, decide_vars, admin_vars, user_stats, flagged_messages,
                   recorded>>

ConcNext ==
    \E p \in Procs :
        Call(p) \/ Execute(p) \/ Busy(p) \/ UpdateStats(p) \/ Commit(p)
        \/ Rollback(p)

SpecConc == ConcInit /\ [][ConcNext]_vars

\* ---------------------------------------------------------------------
\* SpecCombine: _combine_detection_results as a function of its arguments
\* and of the risk score it reads, followed by _make_final_decision
\* ---------------------------------------------------------------------

\* confidences a classifier reports, around the thresholds and their halves
CombineConfidences == {0, 100, 500, 600, 700, 750, 850, 1000}

\* risk scores flagged / total around the limits 0.1 and 0.5
CombineRisks == {<<0, 1>>, <<1, 20>>, <<1, 10>>, <<1, 3>>, <<1, 2>>, <<3, 5>>, <<1, 1>>}

CombineInit ==
    /\ classifier \in {"unavailable", "untrained", "trained"}
    /\ combine_args \in
          [regex_results : {RegexResults[m] : m \in 1..Len(Corpus)},
           ml_results : [is_violation : BOOLEAN, confidence : CombineConfidences,
                         violation_type : {None}],
           user_risk : CombineRisks]
    /\ EngineInit
    /\ assessment = NoDecision
    /\ decision = NoDecision
    /\ recorded = [u \in Users |-> [flagged |-> 0, safe |-> 0]]
    /\ calls = [p \in Procs |-> [pc |-> "idle", kind |-> "safe", user_id |-> "user5"]]
    /\ txn = [p \in Procs |-> EmptyDatabase]
    /\ training = [pc |-> "none"]
    /\ scored_with = "none"
    /\ batch = <<>>
    /\ results = <<>>
    /\ progress = [pc |-> "none"]
    /\ detection = [pc |-> "none"]

\* combined_analysis = self._combine_detection_results(regex_results,
\* ml_results, user_id)
Combine ==
    /\ assessment = NoDecision
    /\ assessment' = combine_detection_results(combine_args.regex_results,
                          combine_args.ml_results, combine_args.user_risk,
                          model_trained(classifier))
    /\ UNCHANGED <<decision, engine_vars, user_stats, flagged_messages,
                   recorded, conc_vars, admin_vars>>

CombineNext == Combine \/ (assessment # NoDecision /\ Decide)

SpecCombine == CombineInit /\ [][CombineNext]_vars

\* ---------------------------------------------------------------------
\* SpecTrain: train_models running while moderate_message is being called
\* ---------------------------------------------------------------------

\* samples of either label in one training_data
MaxSamples == 3

\* train_models runs in one run of SpecTrain
MaxRuns == 2

\* moderate_message calls in one run of SpecTrain
MaxScored == 2

\* training_data by the number of samples of each label
TrainingSets == [safe : 0..MaxSamples, violation : 0..MaxSamples]

\* train_models up to the call of fit: the two guards that print and
\* return, train_test_split (stratified, test_size 0.2: it raises
\* ValueError unless each label has 2 samples and the test part has one
\* sample per label), then fit starts on self.models['violation_classifier'],
\* the object predict_violation reads
train_models_enter(model, data) ==
    LET n == data.safe + data.violation
        labels == {l \in {0, 1} : IF l = 0 THEN data.safe > 0
                                           ELSE data.violation > 0}
        n_test == (2 * n + 9) \div 10
    IN  IF model = "unavailable" \/ n = 0
        THEN [pc |-> "returned", model |-> model, labels |-> labels]
        ELSE IF Cardinality(labels) < 2
        THEN [pc |-> "returned", model |-> model, labels |-> labels]
        ELSE IF data.safe < 2 \/ data.violation < 2 \/ n_test < 2
        THEN [pc |-> "raised", model |-> model, labels |-> labels]
        ELSE [pc |-> "fitting", model |-> "partial", labels |-> labels]

TrainInit ==
    /\ classifier \in {"unavailable", "untrained", "trained"}
    /\ EngineInit
    /\ assessment = NoDecision
    /\ decision = NoDecision
    /\ recorded = [u \in Users |-> [flagged |-> 0, safe |-> 0]]
    /\ calls = [p \in Procs |-> [pc |-> "idle", kind |-> "safe", user_id |-> "user5"]]
    /\ txn = [p \in Procs |-> EmptyDatabase]
    /\ combine_args = [model |-> "none"]
    /\ training = [pc |-> "idle", runs |-> 0, labels |-> {}, before |-> classifier]
    /\ scored_with = "none"
    /\ batch = <<>>
    /\ results = <<>>
    /\ progress = [pc |-> "none"]
    /\ detection = [pc |-> "none"]

\* ml_detector.train_models(training_data) is called
Train ==
    /\ training.pc # "fitting"
    /\ training.runs < MaxRuns
    /\ \E data \in TrainingSets :
          LET entered == train_models_enter(classifier, data)
          IN  /\ training' = [pc |-> entered.pc, runs |-> training.runs + 1,
                              labels |-> entered.labels, before |-> classifier]
              /\ classifier' = entered.model
    /\ scored_with' = "none"
    /\ UNCHANGED <<user_stats, flagged_messages, stats, result, ncalls,
                   decide_vars, recorded, conc_vars, progress, combine_args, detection, batch, results>>

\* fit returns; the scores are printed and the model is saved
FitDone ==
    /\ training.pc = "fitting"
    /\ training' = [training EXCEPT !.pc = "returned"]
    /\ classifier' = "trained"
    /\ UNCHANGED <<user_stats, flagged_messages, stats, result, ncalls,
                   decide_vars, recorded, conc_vars, progress, combine_args, detection, scored_with,
                   batch, results>>

\* fit raises: the exception leaves train_models, the pipeline stays as
\* far as fit had got (untouched when it raised before its first assignment)
FitRaise ==
    /\ training.pc = "fitting"
    /\ training' = [training EXCEPT !.pc = "raised"]
    /\ classifier' \in {training.before, "partial"}
    /\ UNCHANGED <<user_stats, flagged_messages, stats, result, ncalls,
                   decide_vars, recorded, conc_vars, progress, combine_args, detection, scored_with,
                   batch, results>>

\* one call of moderate_message from another thread.  A pipeline in the
\* middle of fit has classes_ or not, and its predict raises or answers.
TrainModerate ==
    /\ ncalls < MaxScored
    /\ \E message \in 1..Len(Corpus), out \in MLOutputs,
          view \in (IF classifier = "partial" THEN {"untrained", "trained"}
                    ELSE {classifier}),
          fault \in (IF classifier = "partial" THEN {"none", "predict"}
                     ELSE {"none"}) :
          Returns(moderate_message(view, Database, stats, message, "user5",
                                   fault, out))
    /\ ncalls' = ncalls + 1
    /\ scored_with' = classifier
    /\ UNCHANGED <<classifier, training, decide_vars, recorded, conc_vars,
                   progress, combine_args, detection, batch, results>>

TrainNext == Train \/ FitDone \/ FitRaise \/ TrainModerate

SpecTrain == TrainInit /\ [][TrainNext]_vars

\* ---------------------------------------------------------------------
\* SpecBatch: batch_moderate
\* ---------------------------------------------------------------------

\* messages in one batch
MaxBatch == 3

\* the (message, user_id) pairs of a batch, each with the behaviour of the
\* database in its call
BatchItems ==
    [message : 1..Len(Corpus), user_id : Users, fault : {"none", "db_write"}]

\* the lists batch_moderate is called with
Batches == UNION {[1..n -> BatchItems] : n \in 0..MaxBatch}

\* what a fitted classifier answers in the calls of a batch
BatchOut == [prediction |-> 1, confidence |-> 700]

\* a loop that takes the pairs from the end of the list
batch_next_reversed(messages, i) == messages[Len(messages) + 1 - i]

\* for message, user_id in messages: the pair of the i-th iteration
batch_next(messages, i) == messages[i]

\* result = self.moderate_message(message, user_id)
batch_call(model, engine, item) ==
    moderate_message(model, engine.db, engine.stats, item.message,
                     item.user_id, item.fault, BatchOut)

RECURSIVE batch_loop(_, _, _, _)
\* results.append(result), then the next iteration on the engine the call left
batch_append(model, messages, i, call) ==
    LET rest == batch_loop(model, messages, i + 1, call)
    IN  [rest EXCEPT !.results = <<call.result>> \o @]

\* the for loop of batch_moderate from its i-th iteration on
batch_loop(model, messages, i, engine) ==
    IF i > Len(messages)
    THEN [results |-> <<>>, db |-> engine.db, stats |-> engine.stats]
    ELSE batch_append(model, messages, i,
                      batch_call(model, engine, batch_next(messages, i)))

\* ModerationEngine.batch_moderate: the returned list and the engine it leaves
batch_moderate(model, db, st, messages) ==
    batch_loop(model, messages, 1, [db |-> db, stats |-> st])

BatchInit ==
    /\ classifier \in {"unavailable", "trained"}
    /\ EngineInit
    /\ Idle

\* the state batch_moderate leaves and the list it returns
BatchReturns(messages, returned) ==
    /\ batch' = messages
    /\ results' = returned.results
    /\ user_stats' = returned.db.user_stats
    /\ flagged_messages' = returned.db.flagged_messages
    /\ stats' = returned.stats
    /\ ncalls' = ncalls + Len(messages)
    /\ result' = IF Len(messages) = 0 THEN result
                 ELSE returned.results[Len(messages)]

\* one call of batch_moderate
BatchModerate ==
    /\ ncalls = 0
    /\ \E messages \in Batches :
          BatchReturns(messages, batch_moderate(classifier, Database, stats, messages))
    /\ UNCHANGED <<classifier, decide_vars, recorded, conc_vars, progress, combine_args, detection,
                   training, scored_with>>

BatchNext == BatchModerate

SpecBatch == BatchInit /\ [][BatchNext]_vars

\* ---------------------------------------------------------------------
\* SpecDetect: RegexDetector.analyze_message_risk as a function of the
\* message
\* ---------------------------------------------------------------------

\* pieces a message is made of
MaxFragments == 2

\* "x@y.net", "555-123-4567", "cash.app/ab", "skype", "reach me via": one
\* per category of REGEX_PATTERNS; "hi" and "Zelle" for no category
Fragments ==
    << <<"x","@","y",".","n","e","t">>,
       <<"5","5","5","-","1","2","3","-","4","5","6","7">>,
       <<"c","a","s","h",".","a","p","p","/","a","b">>,
       <<"s","k","y","p","e">>,
       <<"r","e","a","c","h"," ","m","e"," ","v","i","a">>,
       <<"h","i">>,
       <<"Z","e","l","l","e">> >>

RECURSIVE JoinFragments(_, _)
\* the fragments chosen by picks, from the k-th on, separated by spaces
JoinFragments(picks, k) ==
    IF k > Len(picks) THEN <<>>
    ELSE IF k = Len(picks) THEN Fragments[picks[k]]
    ELSE Fragments[picks[k]] \o <<" ">> \o JoinFragments(picks, k + 1)

\* the messages analyze_message_risk is called with
DetectMessages ==
    {JoinFragments(picks, 1) :
        picks \in UNION {[1..n -> 1..Len(Fragments)] : n \in 0..MaxFragments}}

DetectInit ==
    /\ classifier = "untrained"
    /\ EngineInit
    /\ assessment = NoDecision
    /\ decision = NoDecision
    /\ recorded = [u \in Users |-> [flagged |-> 0, safe |-> 0]]
    /\ calls = [p \in Procs |-> [pc |-> "idle", kind |-> "safe", user_id |-> "user5"]]
    /\ txn = [p \in Procs |-> EmptyDatabase]
    /\ combine_args = [model |-> "none"]
    /\ training = [pc |-> "none"]
    /\ scored_with = "none"
    /\ batch = <<>>
    /\ results = <<>>
    /\ progress = [pc |-> "none"]
    /\ detection \in [pc : {"called"}, message : DetectMessages]

\* regex_results = self.regex_detector.analyze_message_risk(message)
Analyze ==
    /\ detection.pc = "called"
    /\ detection' = [pc |-> "returned", message |-> detection.message,
                     risk_analysis |-> analyze_message_risk(detection.message)]
    /\ UNCHANGED <<engine_vars, user_stats, flagged_messages, decide_vars,
                   recorded, conc_vars, combine_args, training, scored_with,
                   batch, results, progress>>

DetectNext == Analyze

SpecDetect == DetectInit /\ [][DetectNext]_vars

\* ---------------------------------------------------------------------
\* SpecStages: one moderate_message call, statement by statement
\* ---------------------------------------------------------------------

\* the call has been entered: the result structure is initialised
StagesInit ==
    /\ classifier \in {"unavailable", "untrained", "trained"}
    /\ user_stats = EmptyDatabase.user_stats
    /\ flagged_messages = EmptyDatabase.flagged_messages
    /\ stats = [total_messages |-> 0, flagged_messages |-> 0,
                false_positives |-> 0, processing_times |-> 0]
    /\ ncalls = 0
    /\ \E message \in 1..Len(Corpus), user_id \in Users :
          result = initial_result(message, user_id)
    /\ progress \in [pc : {"screen"}, trace : {<<"Pending">>},
                      fault : Faults, out : MLOutputs]
    /\ detection = [pc |-> "none"]
    /\ assessment = NoDecision
    /\ decision = NoDecision
    /\ recorded = [u \in Users |-> [flagged |-> 0, safe |-> 0]]
    /\ calls = [p \in Procs |-> [pc |-> "idle", kind |-> "safe", user_id |-> "user5"]]
    /\ txn = [p \in Procs |-> EmptyDatabase]
    /\ combine_args = [model |-> "none"]
    /\ training = [pc |-> "none"]
    /\ scored_with = "none"
    /\ batch = <<>>
    /\ results = <<>>

\* step 1: regex_results = self.regex_detector.analyze_message_risk(message);
\* an exception leads to the except branch
Screen ==
    /\ progress.pc = "screen"
    /\ IF progress.fault = "regex"
       THEN /\ result' = fail_open(result, "regex")
            /\ progress' = [progress EXCEPT !.pc = "finish"]
       ELSE /\ result' = [result EXCEPT !.details.regex_results =
                                            RegexResults[result.message]]
            /\ progress' = [progress EXCEPT !.pc = "score",
                                            !.trace = Append(@, "Screened")]
    /\ UNCHANGED <<classifier, user_stats, flagged_messages, stats, ncalls,
                   decide_vars, recorded, conc_vars, combine_args, detection, training,
                   scored_with, batch, results>>

\* step 2: ml_results = self.ml_detector.predict_violation(message)
Score ==
    /\ progress.pc = "score"
    /\ IF progress.fault = "features" /\ classifier # "unavailable"
       THEN /\ result' = fail_open(result, "features")
            /\ progress' = [progress EXCEPT !.pc = "finish"]
       ELSE /\ result' = [result EXCEPT !.details.ml_results =
                              predict_violation(classifier, progress.out,
                                                progress.fault = "predict")]
            /\ progress' = [progress EXCEPT !.pc = "assess",
                                            !.trace = Append(@, "Scored")]
    /\ UNCHANGED <<classifier, user_stats, flagged_messages, stats, ncalls,
                   decide_vars, recorded, conc_vars, combine_args, detection, training,
                   scored_with, batch, results>>

\* step 3: combined_analysis = self._combine_detection_results(...), which
\* reads the identity's row with get_user_stats
Assess ==
    /\ progress.pc = "assess"
    /\ IF progress.fault = "db_read"
       THEN /\ result' = fail_open(result, "db_read")
            /\ progress' = [progress EXCEPT !.pc = "finish"]
       ELSE /\ result' = [result EXCEPT !.details.combined_analysis =
                              combine_detection_results(
                                  result.details.regex_results,
                                  result.details.ml_results,
                                  get_user_stats(user_stats, result.user_id).risk_score,
                                  model_trained(classifier))]
            /\ progress' = [progress EXCEPT !.pc = "decide",
                                            !.trace = Append(@, "Assessed")]
    /\ UNCHANGED <<classifier, user_stats, flagged_messages, stats, ncalls,
                   decide_vars, recorded, conc_vars, combine_args, detection, training,
                   scored_with, batch, results>>

\* step 4: final_decision = self._make_final_decision(combined_analysis),
\* result.update(final_decision)
Determine ==
    /\ progress.pc = "decide"
    /\ result' = update_result(result,
                     make_final_decision(result.details.combined_analysis))
    /\ progress' = [progress EXCEPT !.pc = "log", !.trace = Append(@, "Decided")]
    /\ UNCHANGED <<classifier, user_stats, flagged_messages, stats, ncalls,
                   decide_vars, recorded, conc_vars, combine_args, detection, training,
                   scored_with, batch, results>>

\* what step 5 and the statistics update leave
Logged(db) ==
    /\ user_stats' = db.user_stats
    /\ flagged_messages' = db.flagged_messages
    /\ stats' = [stats EXCEPT
                    !.total_messages = @ + 1,
                    !.flagged_messages = IF result.is_flagged THEN @ + 1 ELSE @]
    /\ progress' = [progress EXCEPT !.pc = "finish",
                                    !.trace = Append(@, "Logged")]
    /\ UNCHANGED result

\* step 5: _log_flagged_message or log_safe_message, then the statistics;
\* an exception of the write leads to the except branch
Log ==
    /\ progress.pc = "log"
    /\ IF progress.fault = "db_write"
       THEN /\ result' = fail_open(result, "db_write")
            /\ progress' = [progress EXCEPT !.pc = "finish"]
            /\ UNCHANGED <<user_stats, flagged_messages, stats>>
       ELSE Logged(IF result.is_flagged
                   THEN engine_log_flagged_message(Database, result)
                   ELSE log_safe_message(Database, result.user_id))
    /\ UNCHANGED <<classifier, ncalls, decide_vars, recorded, conc_vars,
                   combine_args, detection, training, scored_with, batch, results>>

\* the processing time is recorded and the result returned
Finish ==
    /\ progress.pc = "finish"
    /\ stats' = record_time(stats)
    /\ ncalls' = ncalls + 1
    /\ progress' = [progress EXCEPT !.pc = "done", !.trace = Append(@, "Done")]
    /\ UNCHANGED <<classifier, user_stats, flagged_messages, result,
                   decide_vars, recorded, conc_vars, combine_args, detection, training,
                   scored_with, batch, results>>

StagesNext == Screen \/ Score \/ Assess \/ Determine \/ Log \/ Finish

SpecStages == StagesInit /\ [][StagesNext]_vars

\* ---------------------------------------------------------------------
\* Properties
\* ---------------------------------------------------------------------

Returned == ncalls > 0

\* the faults that raise in the detection, classification or combination
\* stage of a call made with the given classifier
StageFaults(model) ==
    {"regex", "db_read"} \cup (IF model = "unavailable" THEN {} ELSE {"features"})

C2_DecisionKeptOnWriteFailure ==
    (Returned /\ result.details.error = "db_write") =>
        LET d == make_final_decision(result.details.combined_analysis)
        IN  /\ result.action = d.action
            /\ result.is_flagged = d.is_flagged
            /\ result.confidence = d.confidence
            /\ result.violation_type = d.violation_type
            /\ result.warning_message = d.warning_message

\* C3: a returned result with action block has a combined analysis with
\* has_violation, confidence >= COMBINED_CONFIDENCE_THRESHOLD and a risk
\* level of high or critical.
C3_BlockNeedsBothGates ==
    (Returned /\ result.action = "block") =>
        /\ result.details.combined_analysis.has_violation
        /\ result.details.combined_analysis.confidence
               >= COMBINED_CONFIDENCE_THRESHOLD
        /\ result.details.combined_analysis.risk_level \in {"high", "critical"}

\* a blocked message whose risk level is high
C3_Witness ==
    /\ Returned
    /\ result.action = "block"
    /\ result.details.combined_analysis.risk_level = "high"

\* the message key the category map of the policy table gives
PolicyMessage(violation_type) ==
    CASE violation_type \in {"email", "phone", "contact_sharing"} -> "personal_info"
      [] violation_type \in {"payment_links", "off_platform_keywords",
                             "payment_request"} -> "off_platform_transaction"
      [] violation_type \in {"external_platforms", "platform_redirect"} ->
             "external_platform"
      [] OTHER -> "general"

\* C4: _make_final_decision is the four-row table: no violation, allow and
\* no message; violation below the threshold, warn and the general message;
\* violation at or above it with risk high or critical, block and the
\* category message; at or above it with risk low or medium, warn and the
\* category message.
C4_DecisionTable ==
    decision # NoDecision =>
        LET a == assessment
            above == a.confidence >= 600
        IN  /\ ~a.has_violation =>
                 /\ decision.action = "allow"
                 /\ decision.warning_message = None
                 /\ ~decision.is_flagged
            /\ (a.has_violation /\ ~above) =>
                 /\ decision.action = "warn"
                 /\ decision.warning_message = "general"
            /\ (a.has_violation /\ above /\ a.risk_level \in {"high", "critical"}) =>
                 /\ decision.action = "block"
                 /\ decision.warning_message = PolicyMessage(a.violation_type)
            /\ (a.has_violation /\ above /\ a.risk_level \in {"low", "medium"}) =>
                 /\ decision.action = "warn"
                 /\ decision.warning_message = PolicyMessage(a.violation_type)

\* a decision taken exactly on the threshold for a mapped category
C4_Witness ==
    /\ decision # NoDecision
    /\ assessment.has_violation
    /\ assessment.confidence = COMBINED_CONFIDENCE_THRESHOLD
    /\ assessment.risk_level = "medium"
    /\ assessment.violation_type = "payment_links"
    /\ decision.action = "warn"

\* the call of this step appended one row to flagged_messages
RowWritten ==
    /\ Len(flagged_messages') = Len(flagged_messages) + 1
    /\ SubSeq(flagged_messages', 1, Len(flagged_messages)) = flagged_messages

\* C5 (as claimed): a moderate_message call writes a row to
\* flagged_messages if and only if its result has is_flagged true.
C5_RowIffFlagged ==
    [][ncalls' = ncalls + 1 => (RowWritten <=> result'.is_flagged)]_vars

\* C5 (amended): a call writes a row if and only if its result has
\* is_flagged true and no details.error; the row is that call's, and a call
\* that writes none leaves the table as it was.
C5_RowIffFlaggedAndStored ==
    [][ncalls' = ncalls + 1 =>
         /\ RowWritten <=> (result'.is_flagged /\ result'.details.error = None)
         /\ RowWritten =>
              /\ flagged_messages'[Len(flagged_messages')].user_id = result'.user_id
              /\ flagged_messages'[Len(flagged_messages')].message = result'.message
         /\ ~RowWritten => flagged_messages' = flagged_messages]_vars

\* a flagged result and its stored row
C5_Witness ==
    /\ Returned
    /\ result.is_flagged
    /\ result.details.error = None
    /\ Len(flagged_messages) > 0
    /\ flagged_messages[Len(flagged_messages)].message = result.message
    /\ flagged_messages[Len(flagged_messages)].user_id = result.user_id

\* C6: after N log_flagged_message and M log_safe_message calls for an
\* identity, N + M > 0, its risk score is N / (N + M), total_messages is
\* N + M and flagged_messages is N; an identity without calls has score 0.
C6_RiskScoreIsRatio ==
    \A user_id \in Users :
        LET N == recorded[user_id].flagged
            M == recorded[user_id].safe
            row == get_user_stats(user_stats, user_id)
        IN  /\ N + M > 0 =>
                 /\ user_id \in DOMAIN user_stats
                 /\ row.risk_score[2] > 0
                 /\ row.risk_score[1] * (N + M) = N * row.risk_score[2]
                 /\ row.total_messages = N + M
                 /\ row.flagged_messages = N
            /\ N + M = 0 => row.risk_score[1] = 0

\* an identity with both kinds of calls next to one without any call
C6_Witness ==
    /\ recorded["user5"].flagged = 1
    /\ recorded["user5"].safe = 2
    /\ user_stats["user5"].risk_score = <<1, 3>>
    /\ "user19" \notin DOMAIN user_stats

\* the callers that returned normally from a call for the identity
Succeeded(user_id) ==
    {p \in Procs : calls[p].pc = "done" /\ calls[p].user_id = user_id}

\* C7: when all concurrent callers have returned, total_messages of an
\* identity is the number of its calls that returned normally and
\* flagged_messages the number of its log_flagged_message calls that did.
C7_NoLostIncrement ==
    (\A p \in Procs : calls[p].pc \in {"done", "failed"}) =>
        \A user_id \in Users :
            LET row == get_user_stats(user_stats, user_id)
            IN  /\ row.total_messages = Cardinality(Succeeded(user_id))
                /\ row.flagged_messages =
                     Cardinality({p \in Succeeded(user_id) :
                                     calls[p].kind = "flagged"})
                /\ Len(flagged_messages) =
                     Cardinality({p \in Procs : /\ calls[p].pc = "done"
                                                /\ calls[p].kind = "flagged"})

\* two callers for one identity committed while a third met the lock
C7_Witness ==
    /\ \A p \in Procs : calls[p].pc \in {"done", "failed"}
    /\ Cardinality(Succeeded("user5")) = 2
    /\ \E p \in Procs : calls[p].pc = "failed" /\ calls[p].user_id = "user5"
    /\ get_user_stats(user_stats, "user5").total_messages = 2

\* the counters of the sender grew by one call
CountedOnce ==
    LET before == get_user_stats(user_stats, result'.user_id)
        after == get_user_stats(user_stats', result'.user_id)
    IN  /\ after.total_messages = before.total_messages + 1
        /\ after.flagged_messages =
             before.flagged_messages + (IF result'.is_flagged THEN 1 ELSE 0)

FirstOfIdentity ==
    /\ Returned
    /\ result.details.error = None
    /\ get_user_stats(user_stats, result.user_id).total_messages = 1

\* C9 (as claimed): "Contact me at john.doe@gmail.com" from "user5" without
\* history gives violation_type email, confidence 0.9, risk level high and
\* action block.
C9_EmailScenario ==
    (/\ FirstOfIdentity
     /\ Corpus[result.message] = MsgContactEmail
     /\ result.user_id = "user5") =>
        /\ result.violation_type = "email"
        /\ result.confidence = 900
        /\ result.details.combined_analysis.risk_level = "high"
        /\ result.action = "block"

\* C10 (as claimed): "Let's deal outside this platform" from an identity
\* without history makes the bypass detector fire with confidence 0.8 and
\* gives risk level high and action block.
C10_DealOutsideScenario ==
    (/\ FirstOfIdentity
     /\ Corpus[result.message] = MsgDealOutside) =>
        /\ result.details.regex_results.has_bypass
        /\ result.details.regex_results.bypass_details.confidence = 800
        /\ result.details.combined_analysis.risk_level = "high"
        /\ result.action = "block"

\* the detector and the classifier both answered in the call just returned
SourcesRan ==
    /\ Returned
    /\ result.details.error \in {None, "db_read", "db_write"}

\* none of the three sources fired in the call just returned
NothingFired ==
    /\ SourcesRan
    /\ ~result.details.regex_results.has_violation
    /\ ~result.details.regex_results.has_bypass
    /\ ~result.details.ml_results.is_violation

\* C11: a message on which no category matches, no bypass pattern matches
\* and the classifier does not flag is returned with is_flagged false,
\* action allow, confidence 0 and no warning message, whatever the
\* identity's risk score is.
C11_HistoryAloneNeverFlags ==
    NothingFired =>
        /\ ~result.is_flagged
        /\ result.action = "allow"
        /\ result.confidence = 0
        /\ result.warning_message = None

\* a message on which nothing fires, sent by an identity whose risk score
\* is 1.0
C11_Witness ==
    /\ NothingFired
    /\ result.details.error = None
    /\ result.details.combined_analysis.user_risk_factor = <<1, 1>>
    /\ result.action = "allow"

\* the classifier raised in the call just returned: extract_features
\* raised, or the fitted pipeline raised and model_predictions stayed {}
ClassifierRaised ==
    /\ Returned
    /\ \/ result.details.error = "features"
       \/ /\ result.details.error = None
          /\ result.details.ml_results.model_predictions = "empty"

\* what the decision policy derives from the pattern and bypass evidence of
\* the call just returned, the classifier contributing nothing
RegexOnlyDecision ==
    make_final_decision(
        combine_detection_results(
            result.details.regex_results,
            [is_violation |-> FALSE, confidence |-> 0, violation_type |-> None],
            IF result.details.error = None
            THEN result.details.combined_analysis.user_risk_factor
            ELSE get_user_stats(user_stats, result.user_id).risk_score,
            model_trained(classifier)))

\* C12 (as claimed): a moderate call in which the classifier raised returns
\* the action the decision policy derives from the pattern and bypass
\* evidence alone, and the classifier's error is recorded in the result's
\* details.
C12_ClassifierErrorRecorded ==
    ClassifierRaised =>
        /\ result.action = RegexOnlyDecision.action
        /\ result.details.error \in {"features", "predict"}

\* C13 (as claimed): a train_models call whose samples all carry the same
\* label (fewer than 2 distinct values) ends with an error raised to its
\* caller, and the served model is the one it was before the call.
C13_TrainFailsExplicitly ==
    (/\ training.pc \in {"returned", "raised"}
     /\ training.before # "unavailable"
     /\ Cardinality(training.labels) = 1) =>
        /\ training.pc = "raised"
        /\ classifier = training.before

\* C14 (as claimed): while fit is running the served model is the one that
\* was served when train_models was called, every moderate call made
\* meanwhile read that model, and a train_models call that raised leaves
\* that model in service.
C14_AtomicSwap ==
    /\ training.pc = "fitting" =>
          /\ classifier = training.before
          /\ scored_with \in {"none", training.before}
    /\ training.pc = "raised" => classifier = training.before

\* the engine after moderate_message has been called on the given engine
\* with the k-th pair of the batch
AfterCall(k, engine) ==
    batch_call(classifier, engine, batch[k])

RECURSIVE OneAfterAnother(_)
\* the engine, and the result of the last call, after moderate_message has
\* been called on a new engine with the first k pairs of the batch, one
\* call after another
OneAfterAnother(k) ==
    IF k = 0
    THEN [result |-> NoResult, db |-> EmptyDatabase,
          stats |-> [total_messages |-> 0, flagged_messages |-> 0,
                     false_positives |-> 0, processing_times |-> 0]]
    ELSE AfterCall(k, OneAfterAnother(k - 1))

\* C15: batch_moderate(L) returns a list as long as L whose i-th element is
\* the result moderate_message gives for the i-th pair when the pairs are
\* submitted one after another in list order, and it leaves the ledger and
\* the statistics those calls leave; an item that fails open is followed by
\* the remaining ones.
C15_BatchIsSequential ==
    /\ Len(results) = Len(batch)
    /\ \A i \in 1..Len(batch) : results[i] = OneAfterAnother(i).result
    /\ Database = OneAfterAnother(Len(batch)).db
    /\ stats = OneAfterAnother(Len(batch)).stats

\* a batch of three messages of one identity: the first is flagged and
\* stored, the second fails open, the third is decided with the risk score
\* the first left
C15_Witness ==
    /\ Len(batch) = 3
    /\ Len(results) = 3
    /\ \A i \in 1..3 : batch[i].user_id = "user5"
    /\ results[1].is_flagged /\ results[1].details.error = None
    /\ results[2].details.error = "db_write"
    /\ results[3].details.error = None
    /\ results[3].details.combined_analysis.user_risk_factor = <<1, 1>>

\* low < medium < high < critical
LevelRank(level) ==
    IF level = "low" THEN 0 ELSE IF level = "medium" THEN 1
    ELSE IF level = "high" THEN 2 ELSE 3

\* allow < warn < block
Severity(action) ==
    IF action = "allow" THEN 0 ELSE IF action = "warn" THEN 1 ELSE 2

\* risk score r1 is at most risk score r2
RiskAtMost(r1, r2) == r1[1] * r2[2] <= r2[1] * r1[2]

\* the assessment of the arguments of the state with another risk score
CombinedWith(user_risk) ==
    combine_detection_results(combine_args.regex_results,
        combine_args.ml_results, user_risk, model_trained(classifier))

\* the second assessment is nowhere below the first
NotLower(first, second) ==
    /\ first.confidence <= second.confidence
    /\ LevelRank(first.risk_level) <= LevelRank(second.risk_level)
    /\ Severity(make_final_decision(first).action)
          <= Severity(make_final_decision(second).action)

\* C16: with the detector and classifier outputs held fixed, a higher risk
\* score never gives a lower combined confidence, a lower risk level or a
\* less severe action.
C16_MonotoneInRiskScore ==
    assessment # NoDecision =>
        \A user_risk \in CombineRisks :
            RiskAtMost(combine_args.user_risk, user_risk) =>
                NotLower(assessment, CombinedWith(user_risk))

\* an assessment of an identity without history that is decided warn and
\* that risk score 1.0 turns into block
C16_Witness ==
    /\ decision # NoDecision
    /\ combine_args.user_risk = <<0, 1>>
    /\ decision.action = "warn"
    /\ make_final_decision(CombinedWith(<<1, 1>>)).action = "block"

\* the confidences of the sources that fired, the classifier's after the
\* discount for a model that is not trained
FiringConfidences ==
    (IF combine_args.regex_results.has_violation
     THEN {combine_args.regex_results.violation_details.confidence} ELSE {})
    \cup (IF combine_args.regex_results.has_bypass
          THEN {combine_args.regex_results.bypass_details.confidence} ELSE {})
    \cup (IF combine_args.ml_results.is_violation
          THEN {IF classifier = "trained"
                THEN combine_args.ml_results.confidence
                ELSE combine_args.ml_results.confidence \div 2}
          ELSE {})

\* the largest element of a set of confidences, 0 for the empty set
Largest(S) == IF S = {} THEN 0 ELSE CHOOSE x \in S : \A y \in S : y <= x

\* times 1.2 above 0.5, times 0.9 below 0.1, unchanged on [0.1, 0.5]
Adjust(c, r) ==
    IF 2 * r[1] > r[2] THEN Times12(c)
    ELSE IF 10 * r[1] < r[2] THEN Times09(c)
    ELSE c

Clip01(c) == IF c > 1000 THEN 1000 ELSE IF c < 0 THEN 0 ELSE c

\* C17: the combined confidence is the largest confidence among the sources
\* that fired (0 when none did), multiplied by 1.2 when the risk score is
\* above 0.5, by 0.9 when it is below 0.1, unchanged on [0.1, 0.5], then
\* clipped to [0, 1]; it lies in [0, 1].
C17_ConfidenceIsAdjustedMax ==
    assessment # NoDecision =>
        /\ assessment.confidence =
              Clip01(Adjust(Largest(FiringConfidences), combine_args.user_risk))
        /\ assessment.confidence \in 0..1000

\* the three sources fire with three different confidences at risk score
\* exactly 0.5: the combined confidence is the largest of them
C17_Witness ==
    /\ assessment # NoDecision
    /\ Cardinality(FiringConfidences) = 3
    /\ combine_args.user_risk = <<1, 2>>
    /\ assessment.confidence = 900

\* C18: an assessment with a violation, confidence exactly
\* COMBINED_CONFIDENCE_THRESHOLD and risk level high is decided block.
C18_ThresholdInclusive ==
    (/\ decision # NoDecision
     /\ assessment.has_violation
     /\ assessment.confidence = COMBINED_CONFIDENCE_THRESHOLD
     /\ assessment.risk_level = "high") =>
        /\ decision.action = "block"
        /\ decision.is_flagged

\* the boundary assessment has been decided
C18_Witness ==
    /\ decision # NoDecision
    /\ assessment.has_violation
    /\ assessment.confidence = COMBINED_CONFIDENCE_THRESHOLD
    /\ assessment.risk_level = "high"
    /\ decision.action = "block"

\* the entries the classifier left in the evidence of the assessment
ClassifierEvidence ==
    {k \in 1..Len(assessment.evidence) : assessment.evidence[k].source = "ml"}

\* C19: a classifier that flags contributes its reported confidence times
\* 0.5 when its state is untrained or unavailable and its reported
\* confidence as it is when trained; when no other source fires the
\* combined confidence is that contribution, risk-adjusted.
C19_UntrainedDiscount ==
    (assessment # NoDecision /\ combine_args.ml_results.is_violation) =>
        /\ Cardinality(ClassifierEvidence) = 1
        /\ \A k \in ClassifierEvidence :
              /\ classifier \in {"untrained", "unavailable"} =>
                    2 * assessment.evidence[k].confidence
                        = combine_args.ml_results.confidence
              /\ classifier = "trained" =>
                    assessment.evidence[k].confidence
                        = combine_args.ml_results.confidence
              /\ (~combine_args.regex_results.has_violation
                  /\ ~combine_args.regex_results.has_bypass) =>
                    assessment.confidence =
                        Clip01(Adjust(assessment.evidence[k].confidence,
                                      combine_args.user_risk))

\* an untrained classifier reports a violation with confidence 1.0 on a
\* message nothing else fires on: the combined confidence is 0.5
C19_Witness ==
    /\ assessment # NoDecision
    /\ classifier = "untrained"
    /\ combine_args.ml_results.is_violation
    /\ combine_args.ml_results.confidence = 1000
    /\ ~combine_args.regex_results.has_violation
    /\ ~combine_args.regex_results.has_bypass
    /\ combine_args.user_risk = <<1, 10>>
    /\ assessment.confidence = 500

\* the level the step function gives a confidence
StepLevel(c) ==
    IF 900 <= c /\ c <= 1000 THEN "critical"
    ELSE IF 700 <= c /\ c < 900 THEN "high"
    ELSE IF 500 <= c /\ c < 700 THEN "medium"
    ELSE "low"

\* confidences on and next to the limits of the levels
LevelProbes == {0, 499, 500, 501, 699, 700, 701, 899, 900, 901, 1000}

\* C20: the risk level of an assessment is the step function of its final
\* confidence alone (critical on [0.9, 1], high on [0.7, 0.9), medium on
\* [0.5, 0.7), low below), and a level is never below the level of a
\* smaller confidence nor above the level of a larger one.
C20_RiskLevelIsStep ==
    assessment # NoDecision =>
        /\ assessment.risk_level = StepLevel(assessment.confidence)
        /\ \A c \in LevelProbes :
              /\ c <= assessment.confidence =>
                    LevelRank(risk_level_of(c)) <= LevelRank(assessment.risk_level)
              /\ c >= assessment.confidence =>
                    LevelRank(risk_level_of(c)) >= LevelRank(assessment.risk_level)

\* a final confidence of exactly 0.9 is critical
C20_Witness ==
    /\ assessment # NoDecision
    /\ assessment.confidence = 900
    /\ assessment.risk_level = "critical"

\* the call just returned got as far as the combined assessment
Assessed ==
    /\ Returned
    /\ result.details.error \in {None, "db_write"}

\* the sources that fired in the call just returned, each with its own
\* confidence, in the order the combiner looks at them
FiredSources ==
    (IF result.details.regex_results.has_violation
     THEN <<[source |-> "regex",
             confidence |->
                result.details.regex_results.violation_details.confidence]>>
     ELSE <<>>)
    \o (IF result.details.regex_results.has_bypass
        THEN <<[source |-> "regex_bypass",
                confidence |->
                   result.details.regex_results.bypass_details.confidence]>>
        ELSE <<>>)
    \o (IF result.details.ml_results.is_violation
        THEN <<[source |-> "ml",
                confidence |-> result.details.ml_results.confidence]>>
        ELSE <<>>)

\* C21: the evidence of every combined assessment has exactly one entry per
\* source that fired, carrying that source's own confidence whether or not
\* it was the maximum, and it is non-empty exactly when has_violation is
\* true.
C21_EvidencePerFiringSource ==
    Assessed =>
        LET evidence == result.details.combined_analysis.evidence
        IN  /\ Len(evidence) = Len(FiredSources)
            /\ \A k \in 1..Len(evidence) :
                  /\ evidence[k].source = FiredSources[k].source
                  /\ evidence[k].confidence = FiredSources[k].confidence
            /\ (evidence # <<>>) = result.details.combined_analysis.has_violation

\* the three sources fired with confidences 0.9, 0.8 and 0.7 and all three
\* are in the evidence
C21_Witness ==
    /\ Assessed
    /\ Len(result.details.combined_analysis.evidence) = 3
    /\ result.details.combined_analysis.evidence[2].confidence = 800
    /\ result.details.combined_analysis.evidence[3].confidence = 700

\* the statement-by-statement call leaves what moderate_message gives
StagesAgree ==
    progress.pc = "done" =>
        LET call == moderate_message(classifier, EmptyDatabase,
                        [total_messages |-> 0, flagged_messages |-> 0,
                         false_positives |-> 0, processing_times |-> 0],
                        result.message, result.user_id, progress.fault,
                        progress.out)
        IN  /\ result = call.result
            /\ Database = call.db
            /\ stats = call.stats

\* C22 (as claimed): every moderate call goes through Pending, Screened,
\* Scored, Assessed, Decided, Logged, Done in this order, none skipped or
\* repeated, whatever the classifier's state and whether or not the
\* database write fails, and the risk score it used is the one the ledger
\* held before the call's own update.
C22_LinearStages ==
    progress.pc = "done" =>
        /\ progress.trace = <<"Pending", "Screened", "Scored", "Assessed",
                              "Decided", "Logged", "Done">>
        /\ result.details.combined_analysis.user_risk_factor
              = DefaultRow.risk_score

\* the order in which the categories are tested
CategoryOrder ==
    <<"email", "phone", "payment_links", "external_platforms",
      "off_platform_keywords">>

\* the k-th category in that order has a match in the normalised message
\* of the state
HasMatch(k) ==
    \E c \in 1..Len(REGEX_PATTERNS) :
        /\ REGEX_PATTERNS[c].category = CategoryOrder[k]
        /\ CategoryMatches(c, normalize_message(detection.message))

\* C23: detect_violations reports the first category, in the order email,
\* phone, payment_links, external_platforms, off_platform_keywords, that
\* has a match, with confidence exactly 0.9; when no category has a match
\* it reports no violation with confidence 0.
C23_FirstCategoryWins ==
    detection.pc = "returned" =>
        LET found == detection.risk_analysis.violation_details
        IN  /\ found.is_violation = (\E k \in 1..Len(CategoryOrder) : HasMatch(k))
            /\ found.is_violation =>
                  /\ found.confidence = 900
                  /\ \E k \in 1..Len(CategoryOrder) :
                        /\ found.violation_type = CategoryOrder[k]
                        /\ HasMatch(k)
                        /\ \A j \in 1..(k - 1) : ~HasMatch(j)
            /\ ~found.is_violation =>
                  /\ found.confidence = 0
                  /\ found.violation_type = None

\* "skype 555-123-4567": external_platforms matches first in the text,
\* phone, earlier in the order, is reported
C23_Witness ==
    /\ detection.pc = "returned"
    /\ detection.message = Fragments[4] \o <<" ">> \o Fragments[2]
    /\ HasMatch(2) /\ HasMatch(4)
    /\ detection.risk_analysis.violation_details.violation_type = "phone"
    /\ detection.risk_analysis.violation_details.confidence = 900

\* the call just returned stored a flagged record: it is the last row
Stored ==
    /\ Returned
    /\ result.is_flagged
    /\ result.details.error = None

\* C24: the detection_method of the flagged record a call stores is the set
\* of the names of the sources that fired for its message, a non-empty
\* subset of {regex, regex_bypass, ml}, whatever the order of the sources.
C24_DetectionMethodIsFiringSet ==
    Stored =>
        LET row == flagged_messages[Len(flagged_messages)]
        IN  /\ row.message = result.message
            /\ row.user_id = result.user_id
            /\ row.detection_method =
                  {FiredSources[k].source : k \in 1..Len(FiredSources)}
            /\ row.detection_method \subseteq {"regex", "regex_bypass", "ml"}
            /\ row.detection_method # {}

\* a record stored for a message on which the bypass detector and the
\* classifier fired, the category detector not
C24_Witness ==
    /\ Stored
    /\ flagged_messages[Len(flagged_messages)].detection_method
          = {"regex_bypass", "ml"}

\* C25 (as claimed): every moderate_message call that has returned, fail-open
\* calls included, added one to stats['total_messages'] and one processing
\* time, so the two numbers are equal, and flagged_messages is at most
\* total_messages.
C25_TotalEqualsSamples ==
    /\ stats.total_messages = stats.processing_times
    /\ stats.total_messages = ncalls
    /\ stats.flagged_messages <= stats.total_messages

\* C26: with REGEX_CONFIDENCE 0.9, the bypass confidence 0.8 and the
\* factors 0.9 and 1.2, an assessment on which a regex category or a bypass
\* technique fired is decided block whatever the risk score is; warn is
\* decided only when the classifier is the one source that fired.
C26_PatternHitAlwaysBlocks ==
    decision # NoDecision =>
        /\ (combine_args.regex_results.has_violation
            \/ combine_args.regex_results.has_bypass) =>
                /\ decision.action = "block"
                /\ decision.is_flagged
        /\ decision.action = "warn" =>
                /\ combine_args.ml_results.is_violation
                /\ ~combine_args.regex_results.has_violation
                /\ ~combine_args.regex_results.has_bypass

\* a bypass technique alone, sender without history, classifier silent:
\* 0.8 * 0.9 = 0.72 is high and the message is blocked
C26_Witness ==
    /\ decision # NoDecision
    /\ combine_args.regex_results.has_bypass
    /\ ~combine_args.regex_results.has_violation
    /\ ~combine_args.ml_results.is_violation
    /\ combine_args.user_risk = <<0, 1>>
    /\ assessment.confidence = 720
    /\ decision.action = "block"

\* C27: a call made while the classifier is untrained or unavailable gets
\* is_violation false and confidence 0.1 from it; the classifier adds no
\* evidence entry, has_violation is what the regex category and the bypass
\* techniques make it, and action and confidence are those the pattern and
\* bypass evidence give alone.
C27_UntrainedClassifierIsInert ==
    (classifier \in {"untrained", "unavailable"} /\ SourcesRan) =>
        /\ ~result.details.ml_results.is_violation
        /\ result.details.ml_results.confidence = ML_DEFAULT_CONFIDENCE
        /\ Assessed =>
              /\ \A k \in 1..Len(result.details.combined_analysis.evidence) :
                    result.details.combined_analysis.evidence[k].source # "ml"
              /\ result.details.combined_analysis.has_violation
                    = (result.details.regex_results.has_violation
                       \/ result.details.regex_results.has_bypass)
              /\ result.details.error = None =>
                    /\ result.action = RegexOnlyDecision.action
                    /\ result.confidence = RegexOnlyDecision.confidence

\* a call with an untrained classifier on a message a regex category
\* matches: flagged on the regex evidence alone
C27_Witness ==
    /\ classifier = "untrained"
    /\ Assessed
    /\ result.details.error = None
    /\ result.details.ml_results.model_predictions = "untrained"
    /\ result.details.regex_results.has_violation
    /\ Len(result.details.combined_analysis.evidence) = 1
    /\ result.action = "block"

\* the rows of flagged_messages stored for the identity
FlaggedRows(user_id) ==
    {k \in 1..Len(flagged_messages) : flagged_messages[k].user_id = user_id}

\* C28: whatever the callers of log_flagged_message and log_safe_message
\* have done, committed or rolled back, every row of user_stats has
\* total_messages >= 1, 0 <= flagged_messages <= total_messages, a
\* risk_score of flagged_messages / total_messages within [0, 1], and
\* flagged_messages equal to the number of rows of flagged_messages of
\* that identity; an identity without a row has no flagged message.
C28_ProfileInvariant ==
    \A user_id \in Users :
        /\ user_id \in DOMAIN user_stats =>
              LET row == user_stats[user_id]
              IN  /\ row.total_messages >= 1
                  /\ 0 <= row.flagged_messages
                  /\ row.flagged_messages <= row.total_messages
                  /\ row.risk_score[2] > 0
                  /\ row.risk_score[1] * row.total_messages
                        = row.flagged_messages * row.risk_score[2]
                  /\ 0 <= row.risk_score[1]
                  /\ row.risk_score[1] <= row.risk_score[2]
                  /\ row.flagged_messages = Cardinality(FlaggedRows(user_id))
        /\ user_id \notin DOMAIN user_stats => FlaggedRows(user_id) = {}

\* one flagged and one safe call committed for an identity while a third
\* caller holds an open transaction with a row not yet committed
C28_Witness ==
    /\ "user5" \in DOMAIN user_stats
    /\ user_stats["user5"].total_messages = 2
    /\ user_stats["user5"].flagged_messages = 1
    /\ Cardinality(FlaggedRows("user5")) = 1
    /\ \E p \in Procs :
          /\ calls[p].pc = "writing"
          /\ calls[p].kind = "flagged"
          /\ Len(txn[p].flagged_messages) = 2

\* the rows of flagged_messages of the identity, in the order stored
RowsOf(table, user_id) ==
    SelectSeq(table, LAMBDA row : row.user_id = user_id)

\* the risk score in the identity's own row of user_stats, 0 without a row
OwnRiskScore(user_id) ==
    IF user_id \in DOMAIN user_stats THEN user_stats[user_id].risk_score
    ELSE <<0, 1>>

\* C29: a moderate_message call for an identity leaves the user_stats row
\* and the flagged_messages rows of every other identity as they were, and
\* the action, confidence and risk level of a call without error are those
\* the regex and classifier results of the message give together with the
\* risk score of the identity's own row, whatever the other rows hold.
C29_OtherIdentitiesUntouched ==
    [][ncalls' = ncalls + 1 =>
         /\ \A other \in Users \ {result'.user_id} :
               /\ (other \in DOMAIN user_stats') = (other \in DOMAIN user_stats)
               /\ other \in DOMAIN user_stats =>
                     user_stats'[other] = user_stats[other]
               /\ RowsOf(flagged_messages', other) = RowsOf(flagged_messages, other)
         /\ result'.details.error = None =>
               LET combined == combine_detection_results(
                                   result'.details.regex_results,
                                   result'.details.ml_results,
                                   OwnRiskScore(result'.user_id),
                                   model_trained(classifier))
               IN  /\ result'.action = make_final_decision(combined).action
                   /\ result'.confidence = combined.confidence
                   /\ result'.details.combined_analysis.risk_level
                         = combined.risk_level]_vars

\* a first call for user5 returned while user19 has a flagged history: it
\* was assessed with risk score 0
C29_Witness ==
    /\ Returned
    /\ result.user_id = "user5"
    /\ result.details.error = None
    /\ result.details.combined_analysis.user_risk_factor = <<0, 1>>
    /\ "user19" \in DOMAIN user_stats
    /\ user_stats["user19"].flagged_messages = 2
    /\ Len(RowsOf(flagged_messages, "user19")) = 2
    /\ user_stats["user5"].total_messages = 1

\* C30: the violation_type of a returned result is set only when a regex
\* category matched; a result flagged on a bypass technique or on the
\* classifier alone has violation_type None and the 'general' warning,
\* blocked or warned, and its row of flagged_messages has violation_type
\* 'unknown'.
C30_TypeOnlyFromRegexCategory ==
    Returned =>
        /\ result.violation_type # None =>
              /\ Assessed
              /\ result.details.regex_results.has_violation
              /\ result.violation_type
                    = result.details.regex_results.violation_details.violation_type
        /\ (/\ Assessed
            /\ result.is_flagged
            /\ ~result.details.regex_results.has_violation) =>
              /\ result.violation_type = None
              /\ result.warning_message = "general"
              /\ result.details.error = None =>
                    /\ flagged_messages[Len(flagged_messages)].message = result.message
                    /\ flagged_messages[Len(flagged_messages)].violation_type = "unknown"

\* a message on which only a bypass technique fired: blocked with the
\* general warning and stored as 'unknown'
C30_Witness ==
    /\ Stored
    /\ ~result.details.regex_results.has_violation
    /\ result.details.regex_results.has_bypass
    /\ ~result.details.ml_results.is_violation
    /\ result.action = "block"
    /\ result.violation_type = None
    /\ result.warning_message = "general"
    /\ flagged_messages[Len(flagged_messages)].violation_type = "unknown"

====
